---- MODULE Spec2Model ----
(***************************************************************************)
(* Token resolution engine of the firewall-policy export tools:            *)
(*   - fgpol/resolver.py      FwObjectsLookup (network object table) and   *)
(*                            DnsResolver (DNS first, table as fallback)   *)
(*   - scripts/resolve_ports.py   compress_ports, _join_ports,             *)
(*                            load_groups_table                            *)
(*   - scripts/export_services.py expand_port_tokens                       *)
(*                                                                         *)
(* Python strings are modelled as sequences of one-character strings, so   *)
(* that splitting, stripping, parsing and formatting are computed and not  *)
(* assumed.                                                                *)
(***************************************************************************)
EXTENDS Integers, Sequences, FiniteSets, TLC

VARIABLES
    fw_file,       \* the fw_objects file: [exists, fieldnames, rows]
    networks,      \* FwObjectsLookup._networks: <<[network, name], ...>>
    name_to_ref,   \* FwObjectsLookup._name_to_ref: normalized name -> ref
    load_state,    \* "fresh", "loaded", "raised" after a failed load(), or
                   \* "reload_raised" after a failed second load()
    load_error,    \* the exception the last load() raised
    find_call,     \* the last find_* call: [fn, arg, ret]
    p_in,          \* ports pipeline: the caller's input (tagged record)
    p_stage,       \* ports pipeline: which call has returned last
    port_tokens,   \* the list handed to compress_ports
    compressed,    \* compress_ports(port_tokens)
    recompressed,  \* compress_ports(compressed)
    grp_map,       \* load_groups_table(...): group name -> port string
    fw_objects,    \* DnsResolver.fw_objects: "None" or "table" (the loaded table)
    ip_to_name,    \* DnsResolver._ip_to_name: ip text -> hostname or None
    name_to_ip,    \* DnsResolver._name_to_ip: name -> ip text or None
    dns_log,       \* the socket calls made so far: <<[fn, arg], ...>>
    history,       \* the resolve_token / resolve_cell calls made so far
    svc_in,        \* ports resolve run: [impl, services, groups] as configured
    svc_map,       \* load_services_table(...): [raised, map]
    svc_call,      \* the last resolve_service_token call: [token, ret]
    run_in,        \* resolve run: [script, display_mode, input, dns] as configured
    main,          \* main(): [pc, i, exc, rows, out, stops]
    spinner,       \* the Spinner object: [stop, lock, current]
    thread,        \* Spinner._run on its thread: [pc, i, cur]
    screen         \* the terminal line as last written

table_vars == <<fw_file, networks, name_to_ref, load_state, load_error, find_call>>

ports_vars == <<p_in, p_stage, port_tokens, compressed, recompressed, grp_map>>

resolver_vars == <<fw_objects, ip_to_name, name_to_ip, dns_log, history>>

service_vars == <<svc_in, svc_map, svc_call>>

run_vars == <<run_in, main, spinner, thread, screen>>

vars == <<table_vars, ports_vars, resolver_vars, service_vars, run_vars>>

\* None, where a str is expected: a value no sequence of characters equals.
NoneVal == <<"None">>

\* No exception was raised.
NoRaise == "none"

(***************************************************************************)
(* Each specification below runs one part of the program and leaves the    *)
(* other parts as they are before any call.                                *)
(***************************************************************************)

\* FwObjectsLookup.__init__
TableIdle ==
    /\ fw_file = [exists |-> FALSE, fieldnames |-> <<>>, rows |-> <<>>]
    /\ networks = <<>>
    /\ name_to_ref = <<>>
    /\ load_state = "fresh"
    /\ load_error = [exc |-> NoRaise]
    /\ find_call = [fn |-> "none"]

\* The ports pipeline before any call.
PortsIdle ==
    /\ p_in = [kind |-> "none"]
    /\ p_stage = "args"
    /\ port_tokens = <<>>
    /\ compressed = <<>>
    /\ recompressed = <<>>
    /\ grp_map = [raised |-> NoRaise, map |-> <<>>]

\* DnsResolver.__init__ without a table, before any call.
ResolverIdle ==
    /\ fw_objects = "None"
    /\ ip_to_name = <<>>
    /\ name_to_ip = <<>>
    /\ dns_log = <<>>
    /\ history = <<>>

\* The ports resolve run before it is configured.
ServicesIdle ==
    /\ svc_in = [impl |-> "none"]
    /\ svc_map = [raised |-> NoRaise, map |-> <<>>]
    /\ svc_call = [fn |-> "none"]

\* The resolve run before it is configured: no Spinner object, no thread.
RunIdle ==
    /\ run_in = [script |-> "none"]
    /\ main = [pc |-> "idle"]
    /\ spinner = [stop |-> FALSE, lock |-> "free", current |-> <<>>]
    /\ thread = [pc |-> "none"]
    /\ screen = <<>>

\* F(v) for the value v, computed once and then handed on: a local variable
\* of the source that is assigned once and read many times.
Bind(v, F(_)) == CHOOSE y \in {F(w) : w \in {v}} : TRUE

(***************************************************************************)
(* Python str operations, on sequences of characters.                      *)
(***************************************************************************)

\* The characters the model draws, in code-point order.
Alphabet ==
    << " ", "%", ",", "-", ".", "/",
       "0", "1", "2", "3", "4", "5", "6", "7", "8", "9",
       ":", "?", "A", "B", "G", "H", "[", "]",
       "a", "b", "c", "d", "e", "f", "g", "h", "p", "s", "t", "u", "x", "~", "²" >>

\* ord(c), up to an order-preserving renumbering.
Ord(c) == CHOOSE i \in 1..Len(Alphabet) : Alphabet[i] = c

DigitChars == {"0", "1", "2", "3", "4", "5", "6", "7", "8", "9"}

DigitVal(c) == Ord(c) - Ord("0")

DigitChar(d) == Alphabet[Ord("0") + d]

\* s.isascii() and s.isdigit(): the digit strings int() accepts, of the drawn
\* characters (the empty string is not a digit string).
IsDigit(s) == Len(s) > 0 /\ \A i \in 1..Len(s) : s[i] \in DigitChars

\* str.isdigit(): true also of a digit character that is no decimal digit,
\* SUPERSCRIPT TWO among the drawn characters.
StrIsDigit(s) == Len(s) > 0 /\ \A i \in 1..Len(s) : s[i] \in DigitChars \cup {"²"}

\* int(s) of a string that passed str.isdigit() raises ValueError.
IntRaises(s) == StrIsDigit(s) /\ ~IsDigit(s)

\* int(s) for a digit string.
RECURSIVE ParseInt(_)
ParseInt(s) ==
    IF Len(s) = 0 THEN 0
    ELSE 10 * ParseInt(SubSeq(s, 1, Len(s) - 1)) + DigitVal(s[Len(s)])

\* str(n) for n >= 0.
RECURSIVE IntToStr(_)
IntToStr(n) ==
    IF n < 10 THEN <<DigitChar(n)>>
    ELSE IntToStr(n \div 10) \o <<DigitChar(n % 10)>>

IsSpace(c) == c = " "

RECURSIVE LStrip(_)
LStrip(s) ==
    IF Len(s) = 0 THEN s
    ELSE IF IsSpace(Head(s)) THEN LStrip(Tail(s)) ELSE s

RECURSIVE RStrip(_)
RStrip(s) ==
    IF Len(s) = 0 THEN s
    ELSE IF IsSpace(s[Len(s)]) THEN RStrip(SubSeq(s, 1, Len(s) - 1)) ELSE s

\* str.strip()
Strip(s) == RStrip(LStrip(s))

\* c in s
Contains(s, c) == \E i \in 1..Len(s) : s[i] = c

FirstIdx(s, c) == CHOOSE i \in 1..Len(s) : s[i] = c /\ \A j \in 1..(i - 1) : s[j] # c

LastIdx(s, c) == CHOOSE i \in 1..Len(s) : s[i] = c /\ \A j \in (i + 1)..Len(s) : s[j] # c

\* s.split(c): every separator splits, empty pieces are kept.
RECURSIVE SplitOn(_, _)
SplitOn(s, c) ==
    IF ~Contains(s, c) THEN <<s>>
    ELSE LET i == FirstIdx(s, c)
         IN  <<SubSeq(s, 1, i - 1)>> \o SplitOn(SubSeq(s, i + 1, Len(s)), c)

NonEmpty(s) == Len(s) > 0

\* s.split(): runs of whitespace separate, no empty pieces.
SplitWhitespace(s) == SelectSeq(SplitOn(s, " "), NonEmpty)

\* sep.join(parts)
RECURSIVE Join(_, _)
Join(parts, sep) ==
    IF Len(parts) = 0 THEN <<>>
    ELSE IF Len(parts) = 1 THEN parts[1]
    ELSE parts[1] \o sep \o Join(Tail(parts), sep)

\* Python's < on str: lexicographic by code point.
RECURSIVE StrLess(_, _)
StrLess(a, b) ==
    IF Len(b) = 0 THEN FALSE
    ELSE IF Len(a) = 0 THEN TRUE
    ELSE IF Ord(Head(a)) # Ord(Head(b)) THEN Ord(Head(a)) < Ord(Head(b))
    ELSE StrLess(Tail(a), Tail(b))

\* The elements of a sequence, first occurrences only, in order.
RECURSIVE Dedupe(_)
Dedupe(s) ==
    IF Len(s) = 0 THEN <<>>
    ELSE LET front == Dedupe(SubSeq(s, 1, Len(s) - 1))
             x     == s[Len(s)]
         IN  IF \E i \in 1..Len(front) : front[i] = x THEN front ELSE Append(front, x)

Range(s) == {s[i] : i \in 1..Len(s)}

\* sorted(set(ints))
RECURSIVE SortedInts(_)
SortedInts(S) ==
    IF S = {} THEN <<>>
    ELSE LET m == CHOOSE x \in S : \A y \in S : x <= y
         IN  <<m>> \o SortedInts(S \ {m})

\* Every sequence over S of length at most n.
RECURSIVE SeqsUpTo(_, _)
SeqsUpTo(S, n) ==
    IF n = 0 THEN {<<>>}
    ELSE LET shorter == SeqsUpTo(S, n - 1)
         IN  shorter \cup {Append(q, x) : q \in {r \in shorter : Len(r) = n - 1}, x \in S}

RECURSIVE Concat(_)
Concat(seqs) == IF Len(seqs) = 0 THEN <<>> ELSE Head(seqs) \o Concat(Tail(seqs))

(***************************************************************************)
(* The ipaddress library, as far as the resolver uses it.  An address is a *)
(* record [version, groups]: four 8-bit groups for IPv4, eight 16-bit      *)
(* groups for IPv6.  A network is [version, groups, prefixlen] with the    *)
(* host bits of groups cleared.  Invalid stands for a raised ValueError.   *)
(***************************************************************************)

Invalid == [version |-> 0]

\* A prefix length that could not be parsed (NetmaskValueError).
NoPrefix == 0 - 1

GroupBits(version) == IF version = 4 THEN 8 ELSE 16

GroupCount(version) == IF version = 4 THEN 4 ELSE 8

\* max_prefixlen of the address family
MaxPrefixLen(version) == GroupBits(version) * GroupCount(version)

RECURSIVE Pow2(_)
Pow2(k) == IF k = 0 THEN 1 ELSE 2 * Pow2(k - 1)

HexChars == DigitChars \cup {"a", "b", "c", "d", "e", "f", "A", "B"}

HexVal(c) ==
    IF c \in DigitChars THEN DigitVal(c)
    ELSE IF c \in {"a", "A"} THEN 10
    ELSE IF c \in {"b", "B"} THEN 11
    ELSE IF c = "c" THEN 12
    ELSE IF c = "d" THEN 13
    ELSE IF c = "e" THEN 14
    ELSE 15

HexDigits == <<"0", "1", "2", "3", "4", "5", "6", "7", "8", "9", "a", "b", "c", "d", "e", "f">>

RECURSIVE ParseHex(_)
ParseHex(s) ==
    IF Len(s) = 0 THEN 0
    ELSE 16 * ParseHex(SubSeq(s, 1, Len(s) - 1)) + HexVal(s[Len(s)])

\* format(n, "x")
RECURSIVE IntToHex(_)
IntToHex(n) ==
    IF n < 16 THEN <<HexDigits[n + 1]>>
    ELSE IntToHex(n \div 16) \o <<HexDigits[(n % 16) + 1]>>

\* One octet of a dotted quad: 1 to 3 digits, no leading zero, at most 255.
IsOctet(s) ==
    /\ IsDigit(s)
    /\ Len(s) <= 3
    /\ (Len(s) > 1 => s[1] # "0")
    /\ ParseInt(s) <= 255

IsV4Text(s) ==
    LET parts == SplitOn(s, ".")
    IN  Len(parts) = 4 /\ \A i \in 1..4 : IsOctet(parts[i])

ParseV4(s) ==
    LET parts == SplitOn(s, ".")
    IN  [version |-> 4, groups |-> [i \in 1..4 |-> ParseInt(parts[i])]]

\* One group of an IPv6 address: 1 to 4 hex digits.
IsHextet(s) == Len(s) \in 1..4 /\ \A i \in 1..Len(s) : s[i] \in HexChars

HasDoubleColon(s) == \E i \in 1..(Len(s) - 1) : s[i] = ":" /\ s[i + 1] = ":"

DoubleColonAt(s) ==
    CHOOSE i \in 1..(Len(s) - 1) :
        /\ s[i] = ":" /\ s[i + 1] = ":"
        /\ \A j \in 1..(i - 1) : ~(s[j] = ":" /\ s[j + 1] = ":")

\* The hextets on one side of "::" (none when that side is empty).
SideGroups(s) == IF Len(s) = 0 THEN <<>> ELSE SplitOn(s, ":")

\* _split_scope_id: the text before "%" and whether the scope id after it
\* is acceptable (not empty, no second "%"); a text without "%" has no scope.
ScopeIdOk(s) ==
    Contains(s, "%") =>
        LET scope == SubSeq(s, FirstIdx(s, "%") + 1, Len(s))
        IN  Len(scope) > 0 /\ ~Contains(scope, "%")

WithoutScopeId(s) == IF Contains(s, "%") THEN SubSeq(s, 1, FirstIdx(s, "%") - 1) ELSE s

\* The eight hextet texts of an IPv6 address text, "::" filled in with "0";
\* <<>> when the text is no IPv6 address (hex groups and one "::" only: no
\* embedded dotted quad is drawn).
V6Hextets(s) ==
    IF HasDoubleColon(s)
    THEN LET i     == DoubleColonAt(s)
             left  == SideGroups(SubSeq(s, 1, i - 1))
             right == SideGroups(SubSeq(s, i + 2, Len(s)))
         IN  IF Len(left) + Len(right) <= 7
             THEN left \o [k \in 1..(8 - Len(left) - Len(right)) |-> <<"0">>] \o right
             ELSE <<>>
    ELSE SplitOn(s, ":")

IsV6Text(s) ==
    /\ ScopeIdOk(s)
    /\ LET parts == V6Hextets(WithoutScopeId(s))
       IN  Len(parts) = 8 /\ \A i \in 1..8 : IsHextet(parts[i])

ParseV6(s) ==
    LET parts == V6Hextets(WithoutScopeId(s))
    IN  [version |-> 6, groups |-> [i \in 1..8 |-> ParseHex(parts[i])]]

\* ipaddress.ip_address(s)
ip_address(s) ==
    IF IsV4Text(s) THEN ParseV4(s)
    ELSE IF IsV6Text(s) THEN ParseV6(s)
    ELSE Invalid

\* How many of the bits of group g (1-based) lie inside a prefix.
PrefixBitsIn(version, prefixlen, g) ==
    LET w    == GroupBits(version)
        left == prefixlen - w * (g - 1)
    IN  IF left <= 0 THEN 0 ELSE IF left >= w THEN w ELSE left

\* value with all but its top `bits` bits cleared (width w)
TopBits(value, bits, w) == value - (value % Pow2(w - bits))

\* The groups of the netmask of a prefix length.
NetmaskGroups(version, prefixlen) ==
    [g \in 1..GroupCount(version) |->
        TopBits(Pow2(GroupBits(version)) - 1, PrefixBitsIn(version, prefixlen, g),
                GroupBits(version))]

\* address & netmask
MaskedGroups(addr, prefixlen) ==
    [g \in 1..GroupCount(addr.version) |->
        TopBits(addr.groups[g], PrefixBitsIn(addr.version, prefixlen, g),
                GroupBits(addr.version))]

\* IPv4Network._make_netmask for a string: a prefix length in digits, or a
\* dotted-quad netmask or hostmask; Invalid otherwise.
V4PrefixFromString(s) ==
    IF IsDigit(s) /\ Len(s) <= 9 /\ ParseInt(s) <= 32 THEN ParseInt(s)
    ELSE IF ~IsV4Text(s) THEN NoPrefix
    ELSE LET quad == ParseV4(s).groups
             host == [i \in 1..4 |-> 255 - quad[i]]
         IN  IF \E n \in 0..32 : NetmaskGroups(4, n) = quad
             THEN CHOOSE n \in 0..32 : NetmaskGroups(4, n) = quad
             ELSE IF \E n \in 0..32 : NetmaskGroups(4, n) = host
             THEN CHOOSE n \in 0..32 : NetmaskGroups(4, n) = host
             ELSE NoPrefix

\* IPv6Network._make_netmask for a string: a prefix length in digits only.
V6PrefixFromString(s) ==
    IF IsDigit(s) /\ Len(s) <= 9 /\ ParseInt(s) <= 128 THEN ParseInt(s) ELSE NoPrefix

\* The network of a parsed address and a parsed prefix length.
NetworkOf(addr, plen) ==
    IF plen = NoPrefix THEN Invalid
    ELSE [version |-> addr.version, groups |-> MaskedGroups(addr, plen), prefixlen |-> plen]

\* The prefix length of the text after "/", or the full length without one.
PrefixOfParts(parts, version) ==
    IF Len(parts) = 1 THEN MaxPrefixLen(version)
    ELSE IF version = 4 THEN V4PrefixFromString(parts[2])
    ELSE V6PrefixFromString(parts[2])

\* ipaddress.ip_network(s, strict=False): address, optional /prefix; the host
\* bits are cleared.
ip_network(s) ==
    Bind(SplitOn(s, "/"), LAMBDA parts :
        IF Len(parts) > 2 THEN Invalid
        ELSE Bind(ip_address(parts[1]), LAMBDA addr :
                 IF addr = Invalid THEN Invalid
                 ELSE Bind(PrefixOfParts(parts, addr.version), LAMBDA plen :
                          NetworkOf(addr, plen))))

\* ip_obj in network, for an address of the network's version
InNetwork(addr, net) == MaskedGroups(addr, net.prefixlen) = net.groups

\* The start and length of the zero run that str(IPv6Address) writes as "::":
\* the longest run of two or more zero groups, the leftmost of the longest.
ZeroRunLen(groups, i) ==
    IF groups[i] # 0 THEN 0
    ELSE LET stops == {j \in i..8 : groups[j] # 0}
         IN  IF stops = {} THEN 9 - i
             ELSE (CHOOSE j \in stops : \A k \in stops : j <= k) - i

BestZeroRun(groups) ==
    LET best == CHOOSE i \in 1..8 :
                    \A j \in 1..8 :
                        \/ ZeroRunLen(groups, j) < ZeroRunLen(groups, i)
                        \/ ZeroRunLen(groups, j) = ZeroRunLen(groups, i) /\ i <= j
    IN  [start |-> best, len |-> ZeroRunLen(groups, best)]

\* str(address)
AddressText(version, groups) ==
    IF version = 4
    THEN Join([i \in 1..4 |-> IntToStr(groups[i])], <<".">>)
    ELSE LET hex == [i \in 1..8 |-> IntToHex(groups[i])]
             run == BestZeroRun(groups)
         IN  IF run.len < 2 THEN Join(hex, <<":">>)
             ELSE Join(SubSeq(hex, 1, run.start - 1), <<":">>)
                      \o <<":", ":">>
                      \o Join(SubSeq(hex, run.start + run.len, 8), <<":">>)

(***************************************************************************)
(* fgpol/resolver.py: FwObjectsLookup                                      *)
(*                                                                         *)
(* The file is modelled after csv.DictReader has split it: fieldnames is   *)
(* the header (<<>> for a file without one) and a row maps column names to *)
(* cell texts.  Column names are compared as wholes only and are plain     *)
(* strings; RuName stands for the legacy name column.                      *)
(***************************************************************************)

RuName == "object_name_ru"

ru_required == {RuName, "ip", "mask"}

en_required == {"name", "cidr"}

\* (row.get(col) or "")
RowGet(row, col) == IF col \in DOMAIN row THEN row[col] ELSE <<>>

Lower(c) ==
    IF c = "A" THEN "a"
    ELSE IF c = "B" THEN "b"
    ELSE IF c = "G" THEN "g"
    ELSE IF c = "H" THEN "h"
    ELSE c

\* _normalize_name: name.strip().lower()
normalize_name(name) == LET t == Strip(name) IN [i \in 1..Len(t) |-> Lower(t[i])]

\* _mask_to_prefix: IPv4Network("0.0.0.0/<mask>").prefixlen, NoPrefix when the
\* constructor raises.
mask_to_prefix(mask_str) ==
    LET net == ip_network(<<"0", ".", "0", ".", "0", ".", "0", "/">> \o mask_str)
    IN  IF net = Invalid THEN NoPrefix ELSE net.prefixlen

IsHostNetwork(net) ==
    \/ net.version = 4 /\ net.prefixlen = 32
    \/ net.version = 6 /\ net.prefixlen = 128

\* The legacy row loop with the name mapping assigned by every row.
RuRowEntryAlwaysAssign(row) ==
    Bind(<<Strip(RowGet(row, RuName)), Strip(RowGet(row, "ip")), Strip(RowGet(row, "mask"))>>,
         LAMBDA cells :
    LET name_raw == cells[1]
        ip_str   == cells[2]
        mask_str == cells[3]
    IN  IF Len(name_raw) = 0 \/ Len(ip_str) = 0 THEN [skip |-> TRUE]
        ELSE Bind(ip_address(ip_str), LAMBDA ip_obj :
        IF ip_obj = Invalid THEN [skip |-> TRUE]
        ELSE Bind(IF Len(mask_str) = 0
                  THEN (IF ip_obj.version = 4 THEN 32 ELSE 128)
                  ELSE mask_to_prefix(mask_str), LAMBDA prefix :
        IF prefix = NoPrefix THEN [skip |-> TRUE]
        ELSE Bind(ip_network(ip_str \o <<"/">> \o IntToStr(prefix)), LAMBDA network :
        IF network = Invalid THEN [skip |-> TRUE]
        ELSE [skip |-> FALSE, network |-> network, name |-> name_raw,
              key |-> normalize_name(name_raw),
              overwrite |-> TRUE,
              ref |-> IF IsHostNetwork(network) THEN ip_str
                      ELSE AddressText(network.version, network.groups)
                               \o <<"/">> \o IntToStr(network.prefixlen)]))))

\* One pass of the row loop, legacy columns: what the row adds, or skip.
\* overwrite tells name_to_ref[k] = v from name_to_ref.setdefault(k, v).
RuRowEntry(row) ==
    Bind(<<Strip(RowGet(row, RuName)), Strip(RowGet(row, "ip")), Strip(RowGet(row, "mask"))>>,
         LAMBDA cells :
    LET name_raw == cells[1]
        ip_str   == cells[2]
        mask_str == cells[3]
    IN  IF Len(name_raw) = 0 \/ Len(ip_str) = 0 THEN [skip |-> TRUE]
        ELSE Bind(ip_address(ip_str), LAMBDA ip_obj :
        IF ip_obj = Invalid THEN [skip |-> TRUE]
        ELSE Bind(IF Len(mask_str) = 0
                  THEN (IF ip_obj.version = 4 THEN 32 ELSE 128)
                  ELSE mask_to_prefix(mask_str), LAMBDA prefix :
        IF prefix = NoPrefix THEN [skip |-> TRUE]
        ELSE Bind(ip_network(ip_str \o <<"/">> \o IntToStr(prefix)), LAMBDA network :
        IF network = Invalid THEN [skip |-> TRUE]
        ELSE [skip |-> FALSE, network |-> network, name |-> name_raw,
              key |-> normalize_name(name_raw),
              overwrite |-> IsHostNetwork(network),
              ref |-> IF IsHostNetwork(network) THEN ip_str
                      ELSE AddressText(network.version, network.groups)
                               \o <<"/">> \o IntToStr(network.prefixlen)]))))

\* One pass of the row loop, new columns.
EnRowEntry(row) ==
    Bind(<<Strip(RowGet(row, "name")), Strip(RowGet(row, "cidr"))>>, LAMBDA cells :
    LET name_raw == cells[1]
        cidr_str == cells[2]
    IN  IF Len(name_raw) = 0 \/ Len(cidr_str) = 0 THEN [skip |-> TRUE]
        ELSE Bind(ip_network(cidr_str), LAMBDA network :
        IF network = Invalid THEN [skip |-> TRUE]
        ELSE [skip |-> FALSE, network |-> network, name |-> name_raw,
              key |-> normalize_name(name_raw), overwrite |-> TRUE, ref |-> cidr_str]))

RowEntry(row, is_ru) == IF is_ru THEN RuRowEntry(row) ELSE EnRowEntry(row)

MapPut(m, k, v) == [x \in (DOMAIN m) \cup {k} |-> IF x = k THEN v ELSE m[x]]

\* The row loop: networks in file order and name_to_ref, after the first n rows.
RECURSIVE LoadRows(_, _, _)
LoadRows(rows, n, is_ru) ==
    IF n = 0 THEN [networks |-> <<>>, name_to_ref |-> <<>>]
    ELSE Bind(<<LoadRows(rows, n - 1, is_ru), RowEntry(rows[n], is_ru)>>, LAMBDA be :
         LET before == be[1]
             e      == be[2]
         IN  IF e.skip THEN before
             ELSE [networks |-> Append(before.networks, [network |-> e.network, name |-> e.name]),
                   name_to_ref |->
                       IF e.overwrite \/ e.key \notin DOMAIN before.name_to_ref
                       THEN MapPut(before.name_to_ref, e.key, e.ref)
                       ELSE before.name_to_ref])

\* The list left in file order: no sort after the row loop.
KeepFileOrder(nets) == nets

\* networks.sort(key=prefixlen, reverse=True): stable, longest prefix first.
RECURSIVE SortByPrefixDesc(_)
SortByPrefixDesc(nets) ==
    IF Len(nets) = 0 THEN <<>>
    ELSE Bind(SortByPrefixDesc(SubSeq(nets, 1, Len(nets) - 1)), LAMBDA front :
         LET x    == nets[Len(nets)]
             keep == SelectSeq(front, LAMBDA y : y.network.prefixlen >= x.network.prefixlen)
             rest == SelectSeq(front, LAMBDA y : y.network.prefixlen < x.network.prefixlen)
         IN  keep \o <<x>> \o rest)

\* The ValueError of a header that matches neither schema.  The message is
\* kept as its pieces, the joined column names one piece each.
SchemaError(fieldnames) ==
    [exc |-> "ValueError",
     message |-> << "fw_objects must contain either RU columns: ",
                    "ip", ", ", "mask", ", ", RuName,
                    " OR EN columns: ", "name", ",", "cidr", ". ",
                    "Found: " >> \o fieldnames]

\* A schema check that takes any header for the new schema.
SchemaAcceptedAnyHeader(fields) == TRUE

\* is_ru or is_en
SchemaAccepted(fields) == ru_required \subseteq fields \/ en_required \subseteq fields

\* load(): the exception raised, or the new _networks and _name_to_ref.
LoadOutcome(file) ==
    IF ~file.exists
    THEN [raised |-> [exc |-> "FileNotFoundError", message |-> <<"fw_objects file not found: ">>]]
    ELSE IF Len(file.fieldnames) = 0
    THEN [raised |-> [exc |-> "ValueError",
                      message |-> <<"fw_objects must contain a header row.">>]]
    ELSE IF ~SchemaAccepted(Range(file.fieldnames))
    THEN [raised |-> SchemaError(file.fieldnames)]
    ELSE Bind(LoadRows(file.rows, Len(file.rows), ru_required \subseteq Range(file.fieldnames)),
              LAMBDA loaded :
                  [raised |-> [exc |-> NoRaise],
                   networks |-> SortByPrefixDesc(loaded.networks),
                   name_to_ref |-> loaded.name_to_ref])

\* find_name_for_ip: the first network of the list, of the address's version,
\* that contains it.
find_name_for_ip(nets, ip_str) ==
    Bind(ip_address(ip_str), LAMBDA ip_obj :
        IF ip_obj = Invalid THEN NoneVal
        ELSE Bind({i \in 1..Len(nets) :
                      /\ nets[i].network.version = ip_obj.version
                      /\ InNetwork(ip_obj, nets[i].network)}, LAMBDA hits :
                 IF hits = {} THEN NoneVal
                 ELSE nets[CHOOSE i \in hits : \A j \in hits : i <= j].name))

\* A lookup that answers an address held by a loaded network with the
\* reference of that network's name, when the name itself is not stored.
FindRefWithNetworkScan(refs, name) ==
    IF normalize_name(name) \in DOMAIN refs THEN refs[normalize_name(name)]
    ELSE IF \E k \in DOMAIN refs : ip_address(Strip(name)) # Invalid /\ ip_network(refs[k]) # Invalid
                                     /\ ip_network(refs[k]).version = ip_address(Strip(name)).version
                                     /\ InNetwork(ip_address(Strip(name)), ip_network(refs[k]))
         THEN refs[CHOOSE k \in DOMAIN refs :
                       /\ ip_network(refs[k]) # Invalid
                       /\ ip_network(refs[k]).version = ip_address(Strip(name)).version
                       /\ InNetwork(ip_address(Strip(name)), ip_network(refs[k]))]
    ELSE NoneVal

\* find_ref_for_name: dict.get on the normalized name.
find_ref_for_name(refs, name) ==
    IF normalize_name(name) \in DOMAIN refs THEN refs[normalize_name(name)] ELSE NoneVal

(***************************************************************************)
(* The network table: the files drawn, load() and the two lookups.         *)
(***************************************************************************)

MaxRows == 2   \* most rows of a fw_objects file

MaxReloadRows == 1   \* most rows of a table that load() is called on again

NET_10_8 == <<"1", "0", ".", "0", ".", "0", ".", "0", "/", "8">>

NET_10_1_16 == <<"1", "0", ".", "1", ".", "0", ".", "0", "/", "1", "6">>

IP_10_1_2_3 == <<"1", "0", ".", "1", ".", "2", ".", "3">>

IP_10_2_0_1 == <<"1", "0", ".", "2", ".", "0", ".", "1">>

IP_11_0_0_1 == <<"1", "1", ".", "0", ".", "0", ".", "1">>

IP_FD00_1 == <<"f", "d", "0", "0", ":", ":", "1">>

NET_FD00_8 == <<"f", "d", "0", "0", ":", ":", "/", "8">>

\* Rows in the new columns: subnets, a host, an IPv6 subnet under two names;
\* a host with a /32 suffix under a name that differs in case and blanks; an
\* address with host bits under its mask; rows the loop skips (no name, no
\* network).
EnRows ==
    [name : {<<"A">>, <<"B">>}, cidr : {NET_10_8, NET_10_1_16, IP_10_1_2_3, NET_FD00_8}]
        \cup { [name |-> <<"a", " ">>, cidr |-> IP_10_1_2_3 \o <<"/", "3", "2">>],
               [name |-> <<"A">>, cidr |-> IP_10_2_0_1 \o <<"/", "1", "6">>],
               [name |-> <<>>, cidr |-> NET_10_8],
               [name |-> <<"A">>, cidr |-> <<"x">>] }

\* Rows in the legacy columns, under two spellings of one name: an IPv4
\* address with no mask, a dotted mask and a prefix length; an IPv6 address
\* with no mask and with a prefix length beyond 32; rows the loop skips.
RuRows ==
    [object_name_ru : {<<"A">>, <<"a">>},
     ip : {IP_10_1_2_3},
     mask : {<<>>, <<"2", "5", "5", ".", "0", ".", "0", ".", "0">>, <<"1", "6">>}]
        \cup [object_name_ru : {<<"A">>, <<"a">>}, ip : {IP_FD00_1}, mask : {<<>>, <<"6", "4">>}]
        \cup { [object_name_ru |-> <<>>, ip |-> IP_10_1_2_3, mask |-> <<>>],
               [object_name_ru |-> <<"A">>, ip |-> <<"x">>, mask |-> <<>>],
               [object_name_ru |-> <<"A">>, ip |-> IP_10_1_2_3, mask |-> <<"x">>] }

\* Headers that match neither schema: one column of each, an unrelated one.
RejectedHeaders ==
    { <<"name">>, <<"cidr", "ip">>, <<RuName, "ip">>, <<"ip", "mask", "name">>, <<"id">> }

FwFiles ==
    [exists : {TRUE}, fieldnames : {<<"name", "cidr">>}, rows : SeqsUpTo(EnRows, MaxRows)]
        \cup [exists : {TRUE}, fieldnames : {<<RuName, "ip", "mask">>},
              rows : SeqsUpTo(RuRows, MaxRows)]
        \cup [exists : {TRUE}, fieldnames : RejectedHeaders,
              rows : {<<>>, <<[name |-> <<"A">>, cidr |-> NET_10_8, ip |-> IP_10_1_2_3]>>}]
        \cup { [exists |-> TRUE, fieldnames |-> <<>>, rows |-> <<>>],
               [exists |-> FALSE, fieldnames |-> <<>>, rows |-> <<>>] }

IpQueries == {IP_10_1_2_3, IP_10_2_0_1, IP_11_0_0_1, IP_FD00_1, <<"A">>}

NameQueries == {<<"A">>, <<"a">>, <<" ", "B">>, IP_10_1_2_3}

TableInit ==
    /\ ServicesIdle
    /\ RunIdle
    /\ ResolverIdle
    /\ fw_file \in FwFiles
    /\ networks = <<>>
    /\ name_to_ref = <<>>
    /\ load_state = "fresh"
    /\ load_error = [exc |-> NoRaise]
    /\ find_call = [fn |-> "none"]
    /\ PortsIdle

\* load(): on an exception the table keeps what it had.
Load ==
    /\ load_state = "fresh"
    /\ \E r \in {LoadOutcome(fw_file)} :
           IF r.raised.exc = NoRaise
           THEN /\ networks' = r.networks
                /\ name_to_ref' = r.name_to_ref
                /\ load_state' = "loaded"
                /\ load_error' = r.raised
           ELSE /\ load_state' = "raised"
                /\ load_error' = r.raised
                /\ UNCHANGED <<networks, name_to_ref>>
    /\ UNCHANGED <<fw_file, find_call, ports_vars, resolver_vars, service_vars, run_vars>>

\* What the file at the path can have become when load() is called a second
\* time on a loaded table: removed, emptied, or rewritten under a header that
\* matches neither schema.
ReloadFiles ==
    { [exists |-> FALSE, fieldnames |-> <<>>, rows |-> <<>>],
      [exists |-> TRUE, fieldnames |-> <<>>, rows |-> <<>>],
      [exists |-> TRUE, fieldnames |-> <<"id">>, rows |-> <<>>] }

\* A second load() that empties the table before it reads the file.
ReloadClearingFirst ==
    /\ load_state = "loaded"
    /\ Len(fw_file.rows) <= MaxReloadRows
    /\ find_call.fn = "none"
    /\ \E f \in ReloadFiles : \E r \in {LoadOutcome(f)} :
           /\ fw_file' = f
           /\ load_state' = "reload_raised"
           /\ load_error' = r.raised
           /\ networks' = <<>>
           /\ name_to_ref' = <<>>
    /\ UNCHANGED <<find_call, ports_vars, resolver_vars, service_vars, run_vars>>

\* load() called a second time on a loaded table, the file at its path having
\* changed in between: it raises before self._networks and self._name_to_ref
\* are assigned, so the table keeps what it had.
Reload ==
    /\ load_state = "loaded"
    /\ Len(fw_file.rows) <= MaxReloadRows
    /\ find_call.fn = "none"
    /\ \E f \in ReloadFiles : \E r \in {LoadOutcome(f)} :
           /\ fw_file' = f
           /\ load_state' = "reload_raised"
           /\ load_error' = r.raised
           /\ UNCHANGED <<networks, name_to_ref>>
    /\ UNCHANGED <<find_call, ports_vars, resolver_vars, service_vars, run_vars>>

\* The scripts look up only after load() has returned or raised.  A lookup
\* changes nothing of the table, so one recorded lookup per run reaches every
\* (table, lookup) pair.
FindNameForIp(ip_str) ==
    /\ load_state # "fresh"
    /\ find_call.fn = "none"
    /\ find_call' = [fn |-> "find_name_for_ip", arg |-> ip_str,
                     ret |-> find_name_for_ip(networks, ip_str)]
    /\ UNCHANGED <<fw_file, networks, name_to_ref, load_state, load_error, ports_vars, resolver_vars, service_vars, run_vars>>

FindRefForName(name) ==
    /\ load_state # "fresh"
    /\ find_call.fn = "none"
    /\ find_call' = [fn |-> "find_ref_for_name", arg |-> name,
                     ret |-> find_ref_for_name(name_to_ref, name)]
    /\ UNCHANGED <<fw_file, networks, name_to_ref, load_state, load_error, ports_vars, resolver_vars, service_vars, run_vars>>

TableNext ==
    \/ Load
    \/ Reload
    \/ \E ip_str \in IpQueries : FindNameForIp(ip_str)
    \/ \E name \in NameQueries : FindRefForName(name)

SpecTable == TableInit /\ [][TableNext]_vars

(***************************************************************************)
(* fgpol/resolver.py: DnsResolver, split_tokens, resolve_cell.             *)
(* The resolver is the record [ip_to_name, name_to_ip, dns_log]; the       *)
(* outcome of a socket call is the environment's choice.                   *)
(***************************************************************************)

\* A socket call returned: the hostname (gethostbyaddr) or the address list
\* (gethostbyname_ex), as a list of texts.
DnsAnswer(texts) == [kind |-> "answer", value |-> texts, exc |-> NoRaise]

\* A socket call raised.
DnsRaise(exc) == [kind |-> "raise", value |-> <<>>, exc |-> exc]

\* The host argument of a socket call is encoded with the idna codec before
\* any query: every label but the last must have 1 to 63 characters, the last
\* at most 63.
IdnaEncodable(host) ==
    LET labels == SplitOn(host, ".")
    IN  /\ \A i \in 1..(Len(labels) - 1) : Len(labels[i]) > 0 /\ Len(labels[i]) < 64
        /\ Len(labels[Len(labels)]) < 64

\* The exception classes an except clause naming `handler` catches.
CaughtBy(handler) ==
    IF handler = "OSError" THEN {"OSError", "herror", "gaierror", "TimeoutError"}
    ELSE {handler}

Handles(handlers, exc) == \E h \in handlers : exc \in CaughtBy(h)

\* What socket.gethostbyaddr(ip_str) can do.
GetHostByAddrOutcomes(ip_str) ==
    IF ~IdnaEncodable(ip_str) THEN {DnsRaise("UnicodeError")}
    ELSE {DnsAnswer(<< <<"h">> >>)}
            \cup {DnsRaise(e) : e \in {"herror", "gaierror", "TimeoutError", "OSError"}}

\* What socket.gethostbyname_ex(name) can do.
GetHostByNameExOutcomes(name) ==
    IF ~IdnaEncodable(name) THEN {DnsRaise("UnicodeError")}
    ELSE {DnsAnswer(<<IP_10_2_0_1, IP_11_0_0_1>>)}
            \cup {DnsRaise(e) : e \in {"herror", "gaierror", "TimeoutError", "OSError"}}

\* Python truth of an Optional[str]
Truthy(v) == v # NoneVal /\ Len(v) > 0

LogCall(st, fn, arg) == [st EXCEPT !.dns_log = Append(@, [fn |-> fn, arg |-> arg])]

\* is_ip
is_ip(value) == ip_address(value) # Invalid

\* A _dns_ptr that asks the network on every call and stores what it gets,
\* whether or not the address is cached.
DnsPtrAlwaysAsks(st, ip_str, outcome) ==
    Bind(LogCall(st, "gethostbyaddr", ip_str), LAMBDA called :
        IF outcome.kind = "answer"
        THEN [st |-> [called EXCEPT !.ip_to_name = MapPut(@, ip_str, outcome.value[1])],
              ret |-> outcome.value[1], raised |-> NoRaise]
        ELSE IF Handles({"herror", "gaierror", "TimeoutError", "OSError"}, outcome.exc)
        THEN [st |-> [called EXCEPT !.ip_to_name = MapPut(@, ip_str, NoneVal)],
              ret |-> NoneVal, raised |-> NoRaise]
        ELSE [st |-> called, ret |-> NoneVal, raised |-> outcome.exc])

\* _dns_ptr: [st, ret, raised]
dns_ptr(st, ip_str, outcome) ==
    IF ip_str \in DOMAIN st.ip_to_name
    THEN [st |-> st, ret |-> st.ip_to_name[ip_str], raised |-> NoRaise]
    ELSE Bind(LogCall(st, "gethostbyaddr", ip_str), LAMBDA called :
        IF outcome.kind = "answer"
        THEN [st |-> [called EXCEPT !.ip_to_name = MapPut(@, ip_str, outcome.value[1])],
              ret |-> outcome.value[1], raised |-> NoRaise]
        ELSE IF Handles({"herror", "gaierror", "TimeoutError", "OSError"}, outcome.exc)
        THEN [st |-> [called EXCEPT !.ip_to_name = MapPut(@, ip_str, NoneVal)],
              ret |-> NoneVal, raised |-> NoRaise]
        ELSE [st |-> called, ret |-> NoneVal, raised |-> outcome.exc])

\* _dns_a: [st, ret, raised]
dns_a(st, name, outcome) ==
    IF name \in DOMAIN st.name_to_ip
    THEN [st |-> st, ret |-> st.name_to_ip[name], raised |-> NoRaise]
    ELSE Bind(LogCall(st, "gethostbyname_ex", name), LAMBDA called :
        IF outcome.kind = "answer"
        THEN Bind(IF Len(outcome.value) > 0 THEN outcome.value[1] ELSE NoneVal,
                  LAMBDA ip_value :
                      [st |-> [called EXCEPT !.name_to_ip = MapPut(@, name, ip_value)],
                       ret |-> ip_value, raised |-> NoRaise])
        ELSE IF Handles({"gaierror", "TimeoutError", "OSError"}, outcome.exc)
        THEN [st |-> [called EXCEPT !.name_to_ip = MapPut(@, name, NoneVal)],
              ret |-> NoneVal, raised |-> NoRaise]
        ELSE [st |-> called, ret |-> NoneVal, raised |-> outcome.exc])

\* f"{name}[{inner}]"
Display(name, inner) == name \o <<"[">> \o inner \o <<"]">>

\* What one resolve_token call leaves: the resolver, the exception raised if
\* any, and else the token as resolved, what the DNS step returned for it and
\* the display string.
TokenResult(st, raised, cleaned, dns, display) ==
    [st |-> st, raised |-> raised,
     entry |-> [token |-> cleaned, dns |-> dns, display |-> display]]

\* resolve_token, with self.fw_objects as fw: [present, networks, name_to_ref]
resolve_token(st, fw, token, outcome) ==
    Bind(Strip(token), LAMBDA cleaned :
        IF Len(cleaned) = 0 THEN TokenResult(st, NoRaise, cleaned, NoneVal, <<>>)
        ELSE IF is_ip(cleaned)
        THEN Bind(dns_ptr(st, cleaned, outcome), LAMBDA r :
            IF r.raised # NoRaise
            THEN TokenResult(r.st, r.raised, cleaned, NoneVal, <<>>)
            ELSE IF Truthy(r.ret)
            THEN TokenResult(r.st, NoRaise, cleaned, r.ret, Display(r.ret, cleaned))
            ELSE Bind(IF ~fw.present THEN NoneVal
                      ELSE find_name_for_ip(fw.networks, cleaned), LAMBDA obj_name :
                     TokenResult(r.st, NoRaise, cleaned, r.ret,
                         IF Truthy(obj_name) THEN Display(obj_name, cleaned)
                         ELSE Display(<<"?">>, cleaned))))
        ELSE Bind(dns_a(st, cleaned, outcome), LAMBDA r :
            IF r.raised # NoRaise
            THEN TokenResult(r.st, r.raised, cleaned, NoneVal, <<>>)
            ELSE IF Truthy(r.ret)
            THEN TokenResult(r.st, NoRaise, cleaned, r.ret, Display(cleaned, r.ret))
            ELSE Bind(IF ~fw.present THEN NoneVal
                      ELSE find_ref_for_name(fw.name_to_ref, cleaned), LAMBDA fw_ref :
                     TokenResult(r.st, NoRaise, cleaned, r.ret,
                         IF Truthy(fw_ref) THEN Display(cleaned, fw_ref)
                         ELSE Display(cleaned, <<"?">>)))))

\* split_tokens: split on ",", strip, drop the empty pieces.
split_tokens(value) ==
    LET pieces == SplitOn(value, ",")
    IN  SelectSeq([i \in 1..Len(pieces) |-> Strip(pieces[i])], NonEmpty)

\* The list comprehension of resolve_cell: the tokens in order, each with the
\* outcome of its socket call; an exception ends it.
RECURSIVE ResolveTokens(_, _, _, _)
ResolveTokens(st, fw, tokens, outcomes) ==
    IF Len(tokens) = 0 THEN [st |-> st, raised |-> NoRaise, resolved |-> <<>>]
    ELSE Bind(resolve_token(st, fw, Head(tokens), Head(outcomes)), LAMBDA r :
        IF r.raised # NoRaise THEN [st |-> r.st, raised |-> r.raised, resolved |-> <<>>]
        ELSE Bind(ResolveTokens(r.st, fw, Tail(tokens), Tail(outcomes)), LAMBDA rest :
                 [st |-> rest.st, raised |-> rest.raised,
                  resolved |-> <<r.entry>> \o rest.resolved]))

\* resolve_cell: [st, raised, resolved, display]
resolve_cell(st, fw, value, outcomes) ==
    Bind(ResolveTokens(st, fw, split_tokens(value), outcomes), LAMBDA r :
        [st |-> r.st, raised |-> r.raised, resolved |-> r.resolved,
         display |-> IF r.raised # NoRaise THEN <<>>
                     ELSE Join([i \in 1..Len(r.resolved) |-> r.resolved[i].display],
                               <<",", " ">>)])

(***************************************************************************)
(* The resolver as scripts/resolve_name.py builds it: the table is loaded  *)
(* first, then DnsResolver(fw_objects=...) is constructed, then tokens and *)
(* cells are resolved on that one instance.                                *)
(***************************************************************************)

MaxCalls == 2        \* most resolve_token / resolve_cell calls on one instance

BAD_LABEL == <<"a", ".", ".", "b">>

IP_FE80_SCOPED == <<"f", "e", "8", "0", ":", ":", "1", "%">> \o BAD_LABEL

\* Tables the resolver is built over: two nested subnets under A and B with a
\* name entry each; a host under the name h whose ref is the bare address.
ResolverFiles ==
    { [exists |-> TRUE, fieldnames |-> <<"name", "cidr">>,
       rows |-> << [name |-> <<"A">>, cidr |-> NET_10_8],
                   [name |-> <<"B">>, cidr |-> NET_10_1_16] >>],
      [exists |-> TRUE, fieldnames |-> <<RuName, "ip", "mask">>,
       rows |-> << [object_name_ru |-> <<"h">>, ip |-> IP_FD00_1, mask |-> <<>>] >>] }

\* Tokens: addresses inside and outside the tables, of both versions, one with
\* blanks around it, one with a scope id; names in and not in the tables; a
\* name with an empty label; the empty token.
ResolveTokenInputs ==
    { IP_10_1_2_3, IP_11_0_0_1, IP_FD00_1, <<" ">> \o IP_10_1_2_3 \o <<" ">>, IP_FE80_SCOPED,
      <<"A">>, <<"h">>, <<"x">>, BAD_LABEL, <<>> }

\* Cells: a repeated token, an address and a name, a name with an empty label
\* before and after a good token, empty pieces.
ResolveCellInputs ==
    { <<"A">> \o <<",", " ">> \o <<"A">>,
      IP_10_1_2_3 \o <<",">> \o <<"x">>,
      BAD_LABEL \o <<",", " ">> \o <<"A">>,
      IP_11_0_0_1 \o <<",">> \o BAD_LABEL,
      <<" ", ",", ",", " ">> \o <<"h">> }

\* self.fw_objects, as resolve_token reads it
FwObjects ==
    IF fw_objects = "None" THEN [present |-> FALSE]
    ELSE [present |-> TRUE, networks |-> networks, name_to_ref |-> name_to_ref]

\* self, as the methods read and write it
Self == [ip_to_name |-> ip_to_name, name_to_ip |-> name_to_ip, dns_log |-> dns_log]

\* The choices the environment has for the socket call a token leads to.
TokenOutcomes(token) ==
    IF is_ip(Strip(token)) THEN GetHostByAddrOutcomes(Strip(token))
    ELSE GetHostByNameExOutcomes(Strip(token))

CellOutcomes(tokens) ==
    {f \in [1..Len(tokens) -> UNION {TokenOutcomes(tokens[i]) : i \in 1..Len(tokens)}] :
        \A i \in 1..Len(tokens) : f[i] \in TokenOutcomes(tokens[i])}

ResolveInit ==
    /\ ServicesIdle
    /\ RunIdle
    /\ PortsIdle
    /\ fw_objects \in {"None", "table"}
    /\ IF fw_objects = "None" THEN TableIdle
       ELSE /\ fw_file \in ResolverFiles
            /\ \E r \in {LoadOutcome(fw_file)} :
                   /\ networks = r.networks
                   /\ name_to_ref = r.name_to_ref
                   /\ load_error = r.raised
            /\ load_state = "loaded"
            /\ find_call = [fn |-> "none"]
    /\ ip_to_name = <<>>
    /\ name_to_ip = <<>>
    /\ dns_log = <<>>
    /\ history = <<>>

\* One call of resolver.resolve_token(token).
ResolveToken(token) ==
    /\ Len(history) < MaxCalls
    /\ \E outcome \in TokenOutcomes(token) :
       \E r \in {resolve_token(Self, FwObjects, token, outcome)} :
           /\ ip_to_name' = r.st.ip_to_name
           /\ name_to_ip' = r.st.name_to_ip
           /\ dns_log' = r.st.dns_log
           /\ history' = Append(history,
                  [fn |-> "resolve_token", arg |-> token, raised |-> r.raised,
                   tokens |-> <<Strip(token)>>,
                   resolved |-> IF r.raised = NoRaise THEN <<r.entry>> ELSE <<>>,
                   display |-> r.entry.display])
    /\ UNCHANGED <<fw_objects, table_vars, ports_vars, service_vars, run_vars>>

\* One call of resolve_cell(value, resolver).
ResolveCell(value) ==
    /\ Len(history) < MaxCalls
    /\ \E outcomes \in CellOutcomes(split_tokens(value)) :
       \E r \in {resolve_cell(Self, FwObjects, value, outcomes)} :
           /\ ip_to_name' = r.st.ip_to_name
           /\ name_to_ip' = r.st.name_to_ip
           /\ dns_log' = r.st.dns_log
           /\ history' = Append(history,
                  [fn |-> "resolve_cell", arg |-> value, raised |-> r.raised,
                   tokens |-> split_tokens(value),
                   resolved |-> r.resolved, display |-> r.display])
    /\ UNCHANGED <<fw_objects, table_vars, ports_vars, service_vars, run_vars>>

ResolveNext ==
    \/ \E token \in ResolveTokenInputs : ResolveToken(token)
    \/ \E value \in ResolveCellInputs : ResolveCell(value)

SpecResolve == ResolveInit /\ [][ResolveNext]_vars

(***************************************************************************)
(* Properties of the network table (SpecTable).                            *)
(***************************************************************************)

\* a <= b for two addresses of one version, as numbers.
RECURSIVE GroupsLeq(_, _)
GroupsLeq(a, b) ==
    IF Len(a) = 0 THEN TRUE
    ELSE IF Head(a) # Head(b) THEN Head(a) < Head(b)
    ELSE GroupsLeq(Tail(a), Tail(b))

\* The last address of a network: the host bits all set.
BroadcastGroups(net) ==
    LET mask == NetmaskGroups(net.version, net.prefixlen)
    IN  [g \in 1..Len(net.groups) |->
            net.groups[g] + (Pow2(GroupBits(net.version)) - 1 - mask[g])]

\* The address lies in the network's range and is of its version.
Covers(net, addr) ==
    /\ net.version = addr.version
    /\ GroupsLeq(net.groups, addr.groups)
    /\ GroupsLeq(addr.groups, BroadcastGroups(net))

FileIsRu == ru_required \subseteq Range(fw_file.fieldnames)

\* The entries the rows of the file stand for, whatever their order.
FileEntries ==
    {e \in {RowEntry(fw_file.rows[i], FileIsRu) : i \in 1..Len(fw_file.rows)} : ~e.skip}

\* C1: find_name_for_ip returns the name of a network of the file, of the
\* address's version, that contains the address and has the greatest prefix
\* length among all such networks, whatever the order of the rows; it returns
\* None exactly when no network of that version contains the address; with
\* 10.0.0.0/8 -> A and 10.1.0.0/16 -> B, 10.1.2.3 gives B.
C1_LongestPrefixMatch ==
    (load_state = "loaded" /\ find_call.fn = "find_name_for_ip"
        /\ ip_address(find_call.arg) # Invalid) =>
        LET addr  == ip_address(find_call.arg)
            cover == {e \in FileEntries : Covers(e.network, addr)}
        IN  /\ (find_call.ret = NoneVal) <=> (cover = {})
            /\ cover # {} =>
                  \E e \in cover :
                      /\ e.name = find_call.ret
                      /\ \A o \in cover : o.network.prefixlen <= e.network.prefixlen
            /\ ( /\ {<<e.name, e.ref>> : e \in FileEntries}
                      = {<<(<<"A">>), NET_10_8>>, <<(<<"B">>), NET_10_1_16>>}
                 /\ find_call.arg = IP_10_1_2_3 )
                  => find_call.ret = <<"B">>

\* The /8 row comes first in the file and the /16 row answers.
C1_Witness ==
    /\ load_state = "loaded"
    /\ fw_file.rows = << [name |-> <<"A">>, cidr |-> NET_10_8],
                         [name |-> <<"B">>, cidr |-> NET_10_1_16] >>
    /\ find_call.fn = "find_name_for_ip"
    /\ find_call.arg = IP_10_1_2_3
    /\ find_call.ret = <<"B">>

\* The pieces of a message before its "Found: " part.
RECURSIVE MessageHead(_)
MessageHead(msg) ==
    IF Len(msg) = 0 \/ Head(msg) = "Found: " THEN <<>>
    ELSE <<Head(msg)>> \o MessageHead(Tail(msg))

HeaderMatchesNeither ==
    /\ Len(fw_file.fieldnames) > 0
    /\ ~({RuName, "ip", "mask"} \subseteq Range(fw_file.fieldnames))
    /\ ~({"name", "cidr"} \subseteq Range(fw_file.fieldnames))

\* C10: load() of a file whose header holds neither the legacy columns nor
\* the new columns raises a ValueError whose message names both column sets,
\* and the table holds no entry.
C10_SchemaRejected ==
    (fw_file.exists /\ HeaderMatchesNeither /\ load_state \in {"loaded", "raised"}) =>
        /\ load_state = "raised"
        /\ load_error.exc = "ValueError"
        /\ {RuName, "ip", "mask", "name", "cidr"} \subseteq Range(MessageHead(load_error.message))
        /\ networks = <<>>
        /\ name_to_ref = <<>>

\* A header with one column of the new schema and two of the legacy one, over
\* a row that would parse.
C10_Witness ==
    /\ load_state = "raised"
    /\ fw_file.fieldnames = <<"ip", "mask", "name">>
    /\ Len(fw_file.rows) = 1
    /\ load_error.exc = "ValueError"

\* The text network-address/prefixlen of a parsed network.
NetworkText(net) ==
    AddressText(net.version, net.groups) \o <<"/">> \o IntToStr(net.prefixlen)

\* The name cell of a row, trimmed and lower-cased.
TrimLower(t) == [i \in 1..Len(Strip(t)) |-> Lower(Strip(t)[i])]

RowKey(row) == TrimLower(RowGet(row, IF FileIsRu THEN RuName ELSE "name"))

\* The rows that give a network under the key, as their places in the file.
KeyRows(key) ==
    {i \in 1..Len(fw_file.rows) :
        ~RowEntry(fw_file.rows[i], FileIsRu).skip /\ RowKey(fw_file.rows[i]) = key}

FileKeys == {RowKey(fw_file.rows[i]) : i \in {j \in 1..Len(fw_file.rows) :
                                                ~RowEntry(fw_file.rows[j], FileIsRu).skip}}

RowNetwork(i) == RowEntry(fw_file.rows[i], FileIsRu).network

SetMax(S) == CHOOSE x \in S : \A y \in S : y <= x

SetMin(S) == CHOOSE x \in S : \A y \in S : x <= y

Loaded == load_state = "loaded" /\ load_error.exc = NoRaise

\* C16: after load under either schema the reference stored for a name is
\* canonical: for a host entry (prefix 32 or 128) the bare address without a
\* prefix suffix, for a subnet entry the text network-address/prefixlen of
\* the parsed network.
C16_StoredRefCanonical ==
    Loaded =>
        \A key \in DOMAIN name_to_ref :
            \E i \in KeyRows(key) :
                IF IsHostNetwork(RowNetwork(i))
                THEN /\ ~Contains(name_to_ref[key], "/")
                     /\ ip_address(name_to_ref[key]) # Invalid
                     /\ ip_address(name_to_ref[key]).groups = RowNetwork(i).groups
                ELSE name_to_ref[key] = NetworkText(RowNetwork(i))

\* C17: after loading legacy rows that share one trimmed, lower-cased name,
\* find_ref_for_name returns the address of the last host row if there is
\* one, and otherwise network/prefixlen of the first subnet row: a subnet row
\* never replaces a mapping, a host row always does.  es holds what each row
\* gives, ks its trimmed, lower-cased name; ref(key) is the address cell of the
\* last host row of the name, or the network of its first subnet row.
C17_LegacyHostLastSubnetFirst ==
    (Loaded /\ FileIsRu) =>
        Bind([i \in 1..Len(fw_file.rows) |-> RowEntry(fw_file.rows[i], TRUE)], LAMBDA es :
        Bind([i \in 1..Len(fw_file.rows) |-> RowKey(fw_file.rows[i])], LAMBDA ks :
            LET kept       == {i \in 1..Len(es) : ~es[i].skip}
                keys       == {ks[i] : i \in kept}
                rowsOf(key) == {i \in kept : ks[i] = key}
                hosts(key) == {i \in rowsOf(key) : IsHostNetwork(es[i].network)}
                ref(key)   == IF hosts(key) # {}
                              THEN Strip(RowGet(fw_file.rows[SetMax(hosts(key))], "ip"))
                              ELSE NetworkText(es[SetMin(rowsOf(key))].network)
            IN  /\ DOMAIN name_to_ref = keys
                /\ \A key \in keys : name_to_ref[key] = ref(key)
                /\ find_call.fn = "find_ref_for_name" =>
                      find_call.ret = IF TrimLower(find_call.arg) \in keys
                                      THEN ref(TrimLower(find_call.arg))
                                      ELSE NoneVal))

\* A host row, then a subnet row of the same name in another case: the
\* lookup gives the host's address.
C17_Witness ==
    /\ Loaded
    /\ fw_file.fieldnames = <<RuName, "ip", "mask">>
    /\ fw_file.rows = << [object_name_ru |-> <<"A">>, ip |-> IP_10_1_2_3, mask |-> <<>>],
                         [object_name_ru |-> <<"a">>, ip |-> IP_10_1_2_3, mask |-> <<"1", "6">>] >>
    /\ find_call.fn = "find_ref_for_name"
    /\ find_call.arg = <<"A">>
    /\ find_call.ret = IP_10_1_2_3

\* C18: for a file in the new columns with several subnet rows of one
\* trimmed, lower-cased name, find_ref_for_name returns the reference of the
\* first of them: a later subnet row does not replace the mapping.
C18_NewSchemaFirstSubnetWins ==
    (Loaded /\ en_required \subseteq Range(fw_file.fieldnames) /\ ~FileIsRu) =>
        \A key \in FileKeys :
            (Cardinality(KeyRows(key)) >= 2
                /\ \A i \in KeyRows(key) : ~IsHostNetwork(RowNetwork(i))) =>
                /\ key \in DOMAIN name_to_ref
                /\ ip_network(name_to_ref[key]) = RowNetwork(SetMin(KeyRows(key)))
                /\ (find_call.fn = "find_ref_for_name" /\ TrimLower(find_call.arg) = key) =>
                       ip_network(find_call.ret) = RowNetwork(SetMin(KeyRows(key)))

(***************************************************************************)
(* Properties of the resolver (SpecResolve).                               *)
(***************************************************************************)

Min(a, b) == IF a <= b THEN a ELSE b

\* The resolve_token calls one recorded call made, in order: the token, and
\* whether the call returned, with what the DNS step gave and the display.
TokenCalls(h) ==
    [i \in 1..Min(Len(h.tokens), Len(h.resolved) + 1) |->
        IF i <= Len(h.resolved)
        THEN [token |-> h.tokens[i], returned |-> TRUE,
              dns |-> h.resolved[i].dns, display |-> h.resolved[i].display]
        ELSE [token |-> h.tokens[i], returned |-> FALSE,
              dns |-> NoneVal, display |-> <<>>]]

AllTokenCalls == Concat([k \in 1..Len(history) |-> TokenCalls(history[k])])

\* The names of the networks of the table that contain the address with the
\* greatest prefix length; none without a table.
BestCoverNames(addr) ==
    LET cover == {i \in 1..Len(networks) : Covers(networks[i].network, addr)}
    IN  {networks[i].name : i \in {j \in cover :
            \A o \in cover : networks[o].network.prefixlen <= networks[j].network.prefixlen}}

\* One of the three terminals of an IP token, in their order.
IpTerminal(c) ==
    /\ c.returned
    /\ \/ c.dns # NoneVal /\ c.display = c.dns \o <<"[">> \o c.token \o <<"]">>
       \/ /\ c.dns = NoneVal
          /\ \E n \in BestCoverNames(ip_address(c.token)) :
                 c.display = n \o <<"[">> \o c.token \o <<"]">>
       \/ /\ c.dns = NoneVal
          /\ BestCoverNames(ip_address(c.token)) = {}
          /\ c.display = <<"?", "[">> \o c.token \o <<"]">>

\* C2: every IP-literal token ends in one of three terminals, in this order:
\* reverse DNS hit -> hostname[ip]; miss and table hit -> objectname[ip];
\* both miss -> ?[ip].
C2_IpTokenTerminals ==
    \A k \in 1..Len(AllTokenCalls) :
        ip_address(AllTokenCalls[k].token) # Invalid => IpTerminal(AllTokenCalls[k])

\* One of the three terminals of a hostname token, in their order.
NameTerminal(c) ==
    /\ c.returned
    /\ \/ c.dns # NoneVal /\ c.display = c.token \o <<"[">> \o c.dns \o <<"]">>
       \/ /\ c.dns = NoneVal
          /\ normalize_name(c.token) \in DOMAIN name_to_ref
          /\ c.display = c.token \o <<"[">> \o name_to_ref[normalize_name(c.token)] \o <<"]">>
       \/ /\ c.dns = NoneVal
          /\ normalize_name(c.token) \notin DOMAIN name_to_ref
          /\ c.display = c.token \o <<"[", "?", "]">>

\* C3: every non-empty token that is no IP literal ends in one of three
\* terminals, in this order: forward DNS hit -> token[first address]; miss
\* and name entry in the table -> token[ref]; both miss -> token[?].
C3_NameTokenTerminals ==
    \A k \in 1..Len(AllTokenCalls) :
        (Len(AllTokenCalls[k].token) > 0 /\ ip_address(AllTokenCalls[k].token) = Invalid)
            => NameTerminal(AllTokenCalls[k])

\* C4: over the calls on one instance each token causes at most one socket
\* call, also when the first one failed, and every later resolution of a
\* token returns the display string of the first.
C4_OneDnsCallPerToken ==
    /\ \A i, j \in 1..Len(dns_log) : i < j => dns_log[i] # dns_log[j]
    /\ \A i, j \in 1..Len(AllTokenCalls) :
           (i < j /\ AllTokenCalls[i].token = AllTokenCalls[j].token) =>
               /\ AllTokenCalls[i].returned
               /\ AllTokenCalls[j].returned
               /\ AllTokenCalls[i].display = AllTokenCalls[j].display

\* C5: no outcome of a socket call is raised to the caller of resolve_token
\* or resolve_cell: every call returns, with a display for every token of the
\* cell.
C5_NoDnsFailureRaised ==
    \A k \in 1..Len(history) :
        /\ history[k].raised = NoRaise
        /\ Len(history[k].resolved) = Len(history[k].tokens)
        /\ \A i \in 1..Len(history[k].resolved) :
               Len(history[k].tokens[i]) > 0 => Len(history[k].resolved[i].display) > 0

\* The comma-separated pieces of a cell, trimmed, the empty ones dropped.
RECURSIVE CellPieces(_)
CellPieces(value) ==
    IF ~Contains(value, ",")
    THEN (IF Len(Strip(value)) = 0 THEN <<>> ELSE <<Strip(value)>>)
    ELSE LET i    == FirstIdx(value, ",")
             head == Strip(SubSeq(value, 1, i - 1))
         IN  (IF Len(head) = 0 THEN <<>> ELSE <<head>>)
                 \o CellPieces(SubSeq(value, i + 1, Len(value)))

\* C11: resolve_cell returns one display per non-empty comma-separated piece
\* of the cell, each the terminal of that piece resolved on its own, in the
\* order of the cell, repeated pieces kept, joined with ", "; a cell without
\* a non-empty piece gives the empty string.
C11_CellSplitResolveJoin ==
    \A k \in 1..Len(history) :
        history[k].fn = "resolve_cell" =>
            LET h      == history[k]
                pieces == CellPieces(h.arg)
            IN  /\ h.raised = NoRaise
                /\ Len(h.resolved) = Len(pieces)
                /\ \A i \in 1..Len(h.resolved) :
                      /\ h.resolved[i].token = pieces[i]
                      /\ IF ip_address(pieces[i]) # Invalid
                         THEN IpTerminal(TokenCalls(h)[i])
                         ELSE NameTerminal(TokenCalls(h)[i])
                /\ h.display = Join([i \in 1..Len(h.resolved) |-> h.resolved[i].display],
                                    <<",", " ">>)
                /\ (pieces = <<>> => h.display = <<>>)

\* C14: on a resolver built without a table a token whose DNS step gave no
\* answer goes to the '?' terminal: '?[ip]' for an IP token, 'hostname[?]'
\* for a hostname token; there is no table to look into.
C14_NoTableMissIsUnknown ==
    fw_objects = "None" =>
        /\ ~FwObjects.present
        /\ \A k \in 1..Len(AllTokenCalls) :
               LET c == AllTokenCalls[k]
               IN  (Len(c.token) > 0 /\ c.dns = NoneVal) =>
                       /\ c.returned
                       /\ c.display = IF ip_address(c.token) # Invalid
                                      THEN <<"?", "[">> \o c.token \o <<"]">>
                                      ELSE c.token \o <<"[", "?", "]">>

(***************************************************************************)
(* scripts/resolve_ports.py: compress_ports                                *)
(***************************************************************************)

\* tok.rsplit("/", 1) of a token that contains "/"
PortPart(tok) == SubSeq(tok, 1, LastIdx(tok, "/") - 1)

ProtoPart(tok) == SubSeq(tok, LastIdx(tok, "/") + 1, Len(tok))

\* The first loop's tokens: stripped, empties skipped.
StrippedTokens(toks) ==
    SelectSeq([i \in 1..Len(toks) |-> Strip(toks[i])], NonEmpty)

\* A token that goes to by_proto: it has a "/" and a digit port part.
IsNumericToken(tok) == Contains(tok, "/") /\ StrIsDigit(PortPart(tok))

IsPassthrough(tok) == ~IsNumericToken(tok)

\* The keys of by_proto, in insertion order.
ByProtoKeys(toks) ==
    LET num == SelectSeq(toks, IsNumericToken)
    IN  Dedupe([i \in 1..Len(num) |-> ProtoPart(num[i])])

\* by_proto[proto] as a set: the ports collected for proto.
ByProtoPorts(toks, proto) ==
    {ParseInt(PortPart(toks[i])) :
        i \in {j \in 1..Len(toks) : IsNumericToken(toks[j]) /\ ProtoPart(toks[j]) = proto}}

\* An inner while that never advances: every port a run of its own.
RunEndAtStart(ports, i) == i

\* The inner while: the index where the run of consecutive ports from i ends.
RECURSIVE RunEnd(_, _)
RunEnd(ports, i) ==
    IF i + 1 <= Len(ports) /\ ports[i + 1] = ports[i] + 1
    THEN RunEnd(ports, i + 1)
    ELSE i

RenderInterval(start, end, proto) ==
    IF start = end
    THEN IntToStr(start) \o <<"/">> \o proto
    ELSE IntToStr(start) \o <<"-">> \o IntToStr(end) \o <<"/">> \o proto

\* The outer while over one transport's sorted ports.
RECURSIVE Intervals(_, _, _)
Intervals(ports, i, proto) ==
    IF i > Len(ports) THEN <<>>
    ELSE LET j == RunEnd(ports, i)
         IN  <<RenderInterval(ports[i], ports[j], proto)>> \o Intervals(ports, j + 1, proto)

\* 10**12 in the source; TLC's integers are 32 bits wide, so the sentinel is
\* 10**9 here, still above every port the model draws.
NoPortKey == 1000000000

\* A sort key that orders the port part as text instead of as a number.
SortKeyAsText(t) ==
    IF Contains(t, "/") THEN <<ProtoPart(t), NoPortKey, t>> ELSE <<<<"~">>, NoPortKey, t>>

\* _sort_key(t) = (transport, first port or sentinel, the token)
SortKey(t) ==
    IF Contains(t, "/")
    THEN LET pp    == PortPart(t)
             pr    == ProtoPart(t)
             first == SplitOn(pp, "-")[1]
         IN  <<pr, IF StrIsDigit(first) THEN ParseInt(first) ELSE NoPortKey, t>>
    ELSE <<<<"~">>, NoPortKey, t>>

\* Python's < on the key tuples.
KeyLess(a, b) ==
    IF a[1] # b[1] THEN StrLess(a[1], b[1])
    ELSE IF a[2] # b[2] THEN a[2] < b[2]
    ELSE StrLess(a[3], b[3])

\* sorted(out, key=_sort_key): stable, so x goes after every element not greater.
RECURSIVE InsertByKey(_, _)
InsertByKey(sorted, x) ==
    IF Len(sorted) = 0 THEN <<x>>
    ELSE IF KeyLess(SortKey(x), SortKey(Head(sorted))) THEN <<x>> \o sorted
    ELSE <<Head(sorted)>> \o InsertByKey(Tail(sorted), x)

RECURSIVE SortedByKey(_)
SortedByKey(out) ==
    IF Len(out) = 0 THEN <<>>
    ELSE InsertByKey(SortedByKey(SubSeq(out, 1, Len(out) - 1)), out[Len(out)])

\* out before the final sort: the intervals per transport, then the passthrough.
CompressUnsorted(toks_in) ==
    LET toks   == StrippedTokens(toks_in)
        protos == ByProtoKeys(toks)
        ivs    == [k \in 1..Len(protos) |->
                      Intervals(SortedInts(ByProtoPorts(toks, protos[k])), 1, protos[k])]
    IN  Concat(ivs) \o SelectSeq(toks, IsPassthrough)

\* compress_ports raises ValueError: int(port_part) of the first loop, or
\* int(first) of _sort_key over a token of out, is given a string that int()
\* does not parse.
CompressRaises(toks_in) ==
    LET toks == StrippedTokens(toks_in)
    IN  \/ \E i \in 1..Len(toks) :
              Contains(toks[i], "/") /\ IntRaises(PortPart(toks[i]))
        \/ \E i \in 1..Len(toks) :
              Contains(toks[i], "/") /\ IntRaises(SplitOn(PortPart(toks[i]), "-")[1])

\* compress_ports that returns out as built, without the final sorted().
CompressWithoutSort(toks_in) == CompressUnsorted(toks_in)

compress_ports(toks_in) == SortedByKey(CompressUnsorted(toks_in))

(***************************************************************************)
(* scripts/export_services.py: expand_port_tokens                          *)
(***************************************************************************)

\* range(start, end): the upper end left out.
ExpandTokenHalfOpen(t, proto_tag) ==
    LET parts0 == SplitOn(t, "-")[1]
        parts1 == SubSeq(t, Len(parts0) + 2, Len(t))
    IN  IF /\ Contains(t, "-")
           /\ StrIsDigit(parts0)
           /\ StrIsDigit(parts1)
           /\ ParseInt(parts0) <= ParseInt(parts1)
        THEN [k \in 1..(ParseInt(parts1) - ParseInt(parts0)) |->
                 IntToStr(ParseInt(parts0) + k - 1) \o <<"/">> \o proto_tag]
        ELSE <<t \o <<"/">> \o proto_tag>>

\* One pass of the for loop: a numeric start-end with start <= end gives every
\* port of range(start, end + 1); any other token is kept with the tag appended.
ExpandToken(t, proto_tag) ==
    LET parts0 == SplitOn(t, "-")[1]                 \* t.split("-", 1)[0]
        parts1 == SubSeq(t, Len(parts0) + 2, Len(t)) \* t.split("-", 1)[1]
    IN  IF /\ Contains(t, "-")
           /\ StrIsDigit(parts0)
           /\ StrIsDigit(parts1)
           /\ ParseInt(parts0) <= ParseInt(parts1)
        THEN [k \in 1..(ParseInt(parts1) - ParseInt(parts0) + 1) |->
                 IntToStr(ParseInt(parts0) + k - 1) \o <<"/">> \o proto_tag]
        ELSE <<t \o <<"/">> \o proto_tag>>

expand_port_tokens(ports, proto_tag) ==
    IF Len(Strip(ports)) = 0 THEN <<>>
    ELSE LET tokens == SplitWhitespace(ports)
         IN  Concat([i \in 1..Len(tokens) |-> ExpandToken(tokens[i], proto_tag)])

\* expand_port_tokens raises ValueError: int(start_s) or int(end_s) is given a
\* string that int() does not parse.
ExpandRaises(ports) ==
    /\ Len(Strip(ports)) > 0
    /\ \E t \in {SplitWhitespace(ports)[i] : i \in 1..Len(SplitWhitespace(ports))} :
          /\ Contains(t, "-")
          /\ StrIsDigit(SplitOn(t, "-")[1])
          /\ StrIsDigit(SubSeq(t, Len(SplitOn(t, "-")[1]) + 2, Len(t)))
          /\ \/ IntRaises(SplitOn(t, "-")[1])
             \/ IntRaises(SubSeq(t, Len(SplitOn(t, "-")[1]) + 2, Len(t)))

(***************************************************************************)
(* scripts/resolve_ports.py: _join_ports, load_groups_table                *)
(***************************************************************************)

\* The tokens of all non-empty parts, first occurrences only, in order.
JoinPortsTokens(parts) ==
    Dedupe(Concat([i \in 1..Len(parts) |-> SplitWhitespace(parts[i])]))

join_ports(parts) == Join(compress_ports(JoinPortsTokens(parts)), <<" ">>)

PortColumns == <<"tcp_ports", "udp_ports", "udplite_ports", "sctp_ports">>

GroupsRequired == {"group_name"} \cup Range(PortColumns)

\* The row loop's per-row result: the stripped group name and the joined ports.
GroupRowName(row) == Strip(row.group_name)

GroupRowPorts(row) == join_ports([i \in 1..Len(PortColumns) |-> row[PortColumns[i]]])

\* tmp[g]: the non-empty port strings of g's rows, in row order.
GroupChunks(rows, g) ==
    LET idx == SelectSeq([i \in 1..Len(rows) |-> i],
                         LAMBDA i : GroupRowName(rows[i]) = g /\ Len(GroupRowPorts(rows[i])) > 0)
    IN  [k \in 1..Len(idx) |-> GroupRowPorts(rows[idx[k]])]

\* The keys of tmp: named groups with at least one row that has ports.
GroupKeys(rows) ==
    {GroupRowName(rows[i]) :
        i \in {j \in 1..Len(rows) :
                 Len(GroupRowName(rows[j])) > 0 /\ Len(GroupRowPorts(rows[j])) > 0}}

\* load_groups_table(path): the map, or the exception raised.
load_groups_table(file) ==
    IF ~file.exists THEN [raised |-> "FileNotFoundError"]
    ELSE IF file.fieldnames = {} THEN [raised |-> NoRaise, map |-> <<>>]
    ELSE IF ~(GroupsRequired \subseteq file.fieldnames) THEN [raised |-> "ValueError"]
    ELSE [raised |-> NoRaise,
          map |-> [g \in GroupKeys(file.rows) |-> join_ports(GroupChunks(file.rows, g))]]

(***************************************************************************)
(* The ports pipeline: what the callers of the port functions hand in.     *)
(***************************************************************************)

MaxLen == 3        \* longest token list handed to compress_ports
MaxPort == 11      \* largest port of the drawn tokens and ranges
MaxGroupRows == 2  \* most rows of a groups file

TCP == <<"t", "c", "p">>

UDP == <<"u", "d", "p">>

Tok(port, proto) == IntToStr(port) \o <<"/">> \o proto

PortValues == 8..MaxPort

\* Well-formed tokens, and malformed ones: no "/", a non-numeric port part,
\* a range token, a token with blanks around it, a port part that is a digit
\* to str.isdigit() and no number to int().
TokenUniverse ==
    {Tok(p, TCP) : p \in PortValues}
        \cup {Tok(9, UDP), Tok(10, UDP)}
        \cup { <<"x">>, <<"a", "/", "t", "c", "p">>,
               <<"9", "-", "1", "0", "/", "t", "c", "p">>,
               <<" ", "9", "/", "t", "c", "p">>,
               <<"²", "/", "t", "c", "p">> }

\* The list of the docstring of compress_ports.
DocTokens ==
    << Tok(4001, TCP), Tok(4002, TCP), Tok(4003, TCP), Tok(53, UDP), Tok(4010, TCP) >>

TokenLists == SeqsUpTo(TokenUniverse, MaxLen) \cup {DocTokens}

\* Raw FortiGate port strings: every start-end over the drawn ports, a bare
\* port, two tokens, a non-numeric token, an open range, blanks only, a token
\* and a range end that are digits to str.isdigit() and no numbers to int().
RawPortStrings ==
    {IntToStr(a) \o <<"-">> \o IntToStr(b) : a \in PortValues, b \in PortValues}
        \cup {IntToStr(a) : a \in PortValues}
        \cup { <<"8", "8", " ", "4", "6", "4">>, <<"x">>, <<"7", "-">>, <<"7", "-", "x">>,
               <<"7", "0", "0", "0", "-", "7", "0", "0", "2">>, <<" ">>, <<>>,
               <<"²">>, <<"8", "-", "²">> }

GroupNameCells == { <<"G">>, <<"H">>, <<" ">> }

TcpCells ==
    { <<>>,
      <<"1", "/", "t", "c", "p", " ", "2", "/", "t", "c", "p">>,
      <<"3", "/", "t", "c", "p", " ", "4", "/", "t", "c", "p">>,
      <<"2", "/", "t", "c", "p", " ", "3", "/", "t", "c", "p">> }

UdpCells == { <<>>, <<"5", "3", "/", "u", "d", "p">> }

GroupRows ==
    [group_name : GroupNameCells, tcp_ports : TcpCells, udp_ports : UdpCells,
     udplite_ports : {<<>>}, sctp_ports : {<<>>}]

GroupFiles ==
    [exists : {TRUE}, fieldnames : {GroupsRequired \cup {"member_name"}},
     rows : SeqsUpTo(GroupRows, MaxGroupRows)]
        \cup { [exists |-> FALSE, fieldnames |-> {}, rows |-> <<>>],
               [exists |-> TRUE, fieldnames |-> {}, rows |-> <<>>],
               [exists |-> TRUE, fieldnames |-> {"group_name", "tcp_ports"}, rows |-> <<>>] }

PortInputs ==
    [kind : {"tokens"}, tokens : TokenLists]
        \cup [kind : {"raw"}, ports : RawPortStrings, proto_tag : {TCP, UDP}]
        \cup [kind : {"groups"}, file : GroupFiles]

PortsInit ==
    /\ ServicesIdle
    /\ RunIdle
    /\ TableIdle
    /\ ResolverIdle
    /\ p_in \in PortInputs
    /\ p_stage = "args"
    /\ port_tokens = <<>>
    /\ compressed = <<>>
    /\ recompressed = <<>>
    /\ grp_map = [raised |-> NoRaise, map |-> <<>>]

\* export_services: a raw port string is expanded into tokens.
ExpandPortTokens ==
    /\ p_stage = "args"
    /\ p_in.kind = "raw"
    /\ IF ExpandRaises(p_in.ports)
       THEN /\ p_stage' = "expand_raised"
            /\ port_tokens' = port_tokens
       ELSE /\ p_stage' = "tokens"
            /\ port_tokens' = expand_port_tokens(p_in.ports, p_in.proto_tag)
    /\ UNCHANGED <<p_in, compressed, recompressed, grp_map, table_vars, resolver_vars, service_vars, run_vars>>

\* A caller hands a token list of its own to compress_ports.
TakeTokens ==
    /\ p_stage = "args"
    /\ p_in.kind = "tokens"
    /\ port_tokens' = p_in.tokens
    /\ p_stage' = "tokens"
    /\ UNCHANGED <<p_in, compressed, recompressed, grp_map, table_vars, resolver_vars, service_vars, run_vars>>

CompressPorts ==
    /\ p_stage = "tokens"
    /\ IF CompressRaises(port_tokens)
       THEN /\ p_stage' = "compress_raised"
            /\ compressed' = compressed
       ELSE /\ p_stage' = "compressed"
            /\ compressed' = compress_ports(port_tokens)
    /\ UNCHANGED <<p_in, port_tokens, recompressed, grp_map, table_vars, resolver_vars, service_vars, run_vars>>

\* The result is compressed once more (a second source aggregating it).
RecompressPorts ==
    /\ p_stage = "compressed"
    /\ recompressed' = compress_ports(compressed)
    /\ p_stage' = "recompressed"
    /\ UNCHANGED <<p_in, port_tokens, compressed, grp_map, table_vars, resolver_vars, service_vars, run_vars>>

LoadGroupsTable ==
    /\ p_stage = "args"
    /\ p_in.kind = "groups"
    /\ grp_map' = load_groups_table(p_in.file)
    /\ p_stage' = "groups"
    /\ UNCHANGED <<p_in, port_tokens, compressed, recompressed, table_vars, resolver_vars, service_vars, run_vars>>

PortsNext ==
    \/ ExpandPortTokens
    \/ TakeTokens
    \/ CompressPorts
    \/ RecompressPorts
    \/ LoadGroupsTable

SpecPorts == PortsInit /\ [][PortsNext]_vars

(***************************************************************************)
(* The ports resolve run of scripts/resolve_ports.py and of                *)
(* fgpol/resolve_ports_csv.py: load_services_table, load_groups_table,     *)
(* resolve_service_token.  The two files differ in _join_ports only.       *)
(***************************************************************************)

\* fgpol/resolve_ports_csv.py _join_ports: deduplicated, not compressed.
join_ports_csv(parts) == Join(JoinPortsTokens(parts), <<" ">>)

RowPortsCsv(row) == join_ports_csv([i \in 1..Len(PortColumns) |-> row[PortColumns[i]]])

ServicesRequired == {"name"} \cup Range(PortColumns)

\* load_services_table with the _join_ports of its file: m[name] = ports, so
\* the last row of a name stays.
LoadServices(file, is_csv) ==
    IF ~file.exists THEN [raised |-> "FileNotFoundError"]
    ELSE IF file.fieldnames = {} THEN [raised |-> NoRaise, map |-> <<>>]
    ELSE IF ~(ServicesRequired \subseteq file.fieldnames) THEN [raised |-> "ValueError"]
    ELSE LET named == {i \in 1..Len(file.rows) : Len(Strip(file.rows[i].name)) > 0}
             last(n) == CHOOSE i \in named :
                            /\ Strip(file.rows[i].name) = n
                            /\ \A j \in named : Strip(file.rows[j].name) = n => j <= i
         IN  [raised |-> NoRaise,
              map |-> [n \in {Strip(file.rows[i].name) : i \in named} |->
                          IF is_csv THEN RowPortsCsv(file.rows[last(n)])
                          ELSE GroupRowPorts(file.rows[last(n)])]]

\* scripts/resolve_ports.py load_services_table
load_services_table(file) == LoadServices(file, FALSE)

\* fgpol/resolve_ports_csv.py load_services_table
load_services_table_csv(file) == LoadServices(file, TRUE)

\* fgpol/resolve_ports_csv.py load_groups_table
load_groups_table_csv(file) ==
    IF ~file.exists THEN [raised |-> "FileNotFoundError"]
    ELSE IF file.fieldnames = {} THEN [raised |-> NoRaise, map |-> <<>>]
    ELSE IF ~(GroupsRequired \subseteq file.fieldnames) THEN [raised |-> "ValueError"]
    ELSE LET kept == SelectSeq([i \in 1..Len(file.rows) |-> i],
                         LAMBDA i : /\ Len(GroupRowName(file.rows[i])) > 0
                                    /\ Len(RowPortsCsv(file.rows[i])) > 0)
             chunks(g) == SelectSeq(kept, LAMBDA i : GroupRowName(file.rows[i]) = g)
         IN  [raised |-> NoRaise,
              map |-> [g \in {GroupRowName(file.rows[kept[k]]) : k \in 1..Len(kept)} |->
                          join_ports_csv([k \in 1..Len(chunks(g)) |->
                                             RowPortsCsv(file.rows[chunks(g)[k]])])]]

\* f"{token}({ports})" if ports else f"{token}()"
WithPorts(token, ports) == token \o <<"(">> \o ports \o <<")">>

\* The lookup with the group map asked first.
ResolveGroupFirst(token, svc, grp) ==
    IF token \in DOMAIN grp THEN WithPorts(token, grp[token])
    ELSE IF token \in DOMAIN svc THEN WithPorts(token, svc[token])
    ELSE token

\* resolve_service_token (the same text in both files)
resolve_service_token(token, svc, grp) ==
    IF token \in DOMAIN svc THEN WithPorts(token, svc[token])
    ELSE IF token \in DOMAIN grp THEN WithPorts(token, grp[token])
    ELSE token

MaxServiceRows == 1   \* most rows of a services file

\* Rows of a services file and of a groups file: two names and a blank one,
\* with and without ports.
ServiceRows ==
    [name : { <<"G">>, <<"H">>, <<" ">> },
     tcp_ports : { <<>>, <<"1", "/", "t", "c", "p", " ", "2", "/", "t", "c", "p">> },
     udp_ports : {<<>>}, udplite_ports : {<<>>}, sctp_ports : {<<>>}]

ServiceGroupRows ==
    [group_name : { <<"G">>, <<"B">> },
     tcp_ports : { <<>>, <<"3", "/", "t", "c", "p">> },
     udp_ports : {<<>>}, udplite_ports : {<<>>}, sctp_ports : {<<>>}]

ServiceFiles ==
    [exists : {TRUE}, fieldnames : {ServicesRequired},
     rows : SeqsUpTo(ServiceRows, MaxServiceRows)]
        \cup { [exists |-> FALSE, fieldnames |-> {}, rows |-> <<>>],
               [exists |-> TRUE, fieldnames |-> {}, rows |-> <<>>] }

ServiceGroupFiles ==
    [exists : {TRUE}, fieldnames : {GroupsRequired \cup {"member_name"}},
     rows : SeqsUpTo(ServiceGroupRows, MaxGroupRows)]

\* Tokens as the cell loop hands them over, and two a caller could hand in: a
\* name in another case and one with a blank before it.
ServiceTokens == { <<"G">>, <<"H">>, <<"B">>, <<"g">>, <<" ", "G">> }

ServicesInit ==
    /\ RunIdle
    /\ TableIdle
    /\ PortsIdle
    /\ ResolverIdle
    /\ svc_in \in [impl : {"scripts", "fgpol"}, services : ServiceFiles,
                   groups_set : BOOLEAN, groups : ServiceGroupFiles]
    /\ svc_map = [raised |-> NoRaise, map |-> <<>>]
    /\ svc_call = [fn |-> "none"]

\* main: svc_map = load_services_table(...); grp_map = load_groups_table(...)
\* if a groups file is configured, else {}.  An exception ends the run.
LoadServiceTables ==
    /\ svc_call.fn = "none"
    /\ \E s \in {IF svc_in.impl = "scripts" THEN load_services_table(svc_in.services)
                 ELSE load_services_table_csv(svc_in.services)} :
           /\ svc_map' = s
           /\ IF s.raised # NoRaise THEN grp_map' = grp_map
              ELSE IF ~svc_in.groups_set THEN grp_map' = [raised |-> NoRaise, map |-> <<>>]
              ELSE IF svc_in.impl = "scripts" THEN grp_map' = load_groups_table(svc_in.groups)
              ELSE grp_map' = load_groups_table_csv(svc_in.groups)
    /\ svc_call' = [fn |-> "load"]
    /\ UNCHANGED <<svc_in, p_in, p_stage, port_tokens, compressed, recompressed,
                   table_vars, resolver_vars, run_vars>>

\* One resolve_service_token call of the cell loop.
ResolveServiceToken(token) ==
    /\ svc_call.fn = "load"
    /\ svc_map.raised = NoRaise
    /\ grp_map.raised = NoRaise
    /\ svc_call' = [fn |-> "resolve_service_token", token |-> token,
                    ret |-> resolve_service_token(token, svc_map.map, grp_map.map)]
    /\ UNCHANGED <<svc_in, svc_map, ports_vars, table_vars, resolver_vars, run_vars>>

ServicesNext ==
    \/ LoadServiceTables
    \/ \E token \in ServiceTokens : ResolveServiceToken(token)

SpecServices == ServicesInit /\ [][ServicesNext]_vars

(***************************************************************************)
(* Properties of the ports pipeline (SpecPorts).                           *)
(***************************************************************************)

Compressed == p_stage \in {"compressed", "recompressed"}

\* A result token that names a port or an interval: digits or digits-digits
\* before the last "/".
IsPortOrInterval(t) ==
    /\ Contains(t, "/")
    /\ LET pp    == PortPart(t)
           parts == SplitOn(pp, "-")
       IN  /\ Len(parts) \in {1, 2}
           /\ \A i \in 1..Len(parts) : IsDigit(parts[i])

StartPort(t) == ParseInt(SplitOn(PortPart(t), "-")[1])

StrLeq(a, b) == a = b \/ StrLess(a, b)

\* a may come before b: transport first, then the starting port as a number,
\* then the rendered string.
InPortOrder(a, b) ==
    \/ StrLess(ProtoPart(a), ProtoPart(b))
    \/ /\ ProtoPart(a) = ProtoPart(b)
       /\ \/ StartPort(a) < StartPort(b)
          \/ StartPort(a) = StartPort(b) /\ StrLeq(a, b)

Reorderings(s) ==
    {[i \in 1..Len(s) |-> s[f[i]]] :
        f \in {g \in [1..Len(s) -> 1..Len(s)] : \A i, j \in 1..Len(s) : g[i] = g[j] => i = j}}

DocCompressed ==
    << <<"4", "0", "0", "1", "-", "4", "0", "0", "3", "/", "t", "c", "p">>,
       <<"4", "0", "1", "0", "/", "t", "c", "p">>,
       <<"5", "3", "/", "u", "d", "p">> >>

\* The tokens of a list in text order, whatever order they were handed in.
RECURSIVE InTextOrder(_)
InTextOrder(s) ==
    IF Len(s) = 0 THEN <<>>
    ELSE LET rest == InTextOrder(Tail(s))
             k    == Cardinality({i \in 1..Len(rest) : StrLess(rest[i], Head(s))})
         IN  SubSeq(rest, 1, k) \o <<Head(s)>> \o SubSeq(rest, k + 1, Len(rest))

\* C6: the port and interval tokens of the result are ordered by transport,
\* then by starting port as a number, then by the rendered string; the result
\* is the one the same tokens give in text order, so the order they are
\* handed in does not matter; every order of the docstring's list gives
\* 4001-4003/tcp, 4010/tcp, 53/udp.
C6_TransportMajorNumericOrder ==
    Compressed =>
        /\ \A i, j \in 1..Len(compressed) :
              (i < j /\ IsPortOrInterval(compressed[i]) /\ IsPortOrInterval(compressed[j]))
                  => InPortOrder(compressed[i], compressed[j])
        /\ compress_ports(InTextOrder(port_tokens)) = compressed
        /\ port_tokens = DocTokens =>
              \A q \in Reorderings(DocTokens) : compress_ports(q) = DocCompressed

\* 10/tcp was handed in before 8/tcp and comes out after it, before 9/udp.
C6_Witness ==
    /\ p_stage = "compressed"
    /\ port_tokens = <<Tok(10, TCP), Tok(9, UDP), Tok(8, TCP)>>
    /\ compressed = <<Tok(8, TCP), Tok(10, TCP), Tok(9, UDP)>>

\* A token of the result that the first loop passed through as it was: it has
\* no "/" or its port part is no number, and it names no port or interval.
IsPassedThrough(t) ==
    /\ \E k \in 1..Len(port_tokens) : Strip(port_tokens[k]) = t
    /\ IsPassthrough(t)
    /\ ~IsPortOrInterval(t)

\* C15: in the result of compress_ports every passthrough token (no "/", or
\* a port part that is no number) comes after every port or interval token,
\* whatever transport suffix the passthrough token carries.
C15_PassthroughAfterWellFormed ==
    Compressed =>
        \A i, j \in 1..Len(compressed) :
            (IsPassedThrough(compressed[i]) /\ IsPortOrInterval(compressed[j])) => j < i

EndPort(t) == ParseInt(SplitOn(PortPart(t), "-")[Len(SplitOn(PortPart(t), "-"))])

\* A token that denotes a port or an interval start-end with start <= end.
IsWellFormed(t) == IsPortOrInterval(t) /\ StartPort(t) <= EndPort(t)

\* How many places of a sequence hold x.
Count(s, x) == Cardinality({i \in 1..Len(s) : s[i] = x})

\* A malformed token: no "/", or a port part that is not a decimal number.
IsMalformed(t) == ~Contains(t, "/") \/ ~IsDigit(PortPart(t))

\* The tokens handed in, as the first loop sees them.
GivenTokens == StrippedTokens(port_tokens)

MalformedGiven == SelectSeq(GivenTokens, IsMalformed)

\* In how many places of the result t stands as an interval built by
\* compress_ports, and not as a malformed token that was passed through.
ProducedCount(t) == Count(compressed, t) - Count(MalformedGiven, t)

Produced == {t \in Range(compressed) : ProducedCount(t) > 0}

\* The distinct numeric ports handed in for a transport.
PortsGiven(proto) ==
    {StartPort(GivenTokens[k]) :
        k \in {j \in 1..Len(GivenTokens) :
                  ~IsMalformed(GivenTokens[j]) /\ ProtoPart(GivenTokens[j]) = proto}}

\* C22: for each transport the tokens compress_ports builds denote intervals
\* start <= end that are pairwise disjoint and not adjacent (each a maximal
\* run of consecutive ports), and whose union is exactly the set of numeric
\* ports handed in for that transport: no port lost, none added, duplicates
\* collapsed; a run of one port is written port/proto, a longer one
\* start-end/proto.
C22_DisjointMaximalIntervals ==
    Compressed =>
        /\ \A t \in Produced :
               /\ ProducedCount(t) = 1
               /\ IsWellFormed(t)
               /\ t = RenderInterval(StartPort(t), EndPort(t), ProtoPart(t))
        /\ \A t, u \in Produced :
               (t # u /\ ProtoPart(t) = ProtoPart(u)) =>
                   \/ EndPort(t) + 1 < StartPort(u)
                   \/ EndPort(u) + 1 < StartPort(t)
        /\ \A proto \in {ProtoPart(t) : t \in Produced}
                         \cup {ProtoPart(GivenTokens[k]) :
                                  k \in {j \in 1..Len(GivenTokens) : ~IsMalformed(GivenTokens[j])}} :
               UNION {StartPort(t)..EndPort(t) : t \in {u \in Produced : ProtoPart(u) = proto}}
                   = PortsGiven(proto)

\* Three tokens out of order that hold a run of two ports and a gap.
C22_Witness ==
    /\ p_stage = "compressed"
    /\ port_tokens = <<Tok(9, TCP), Tok(8, TCP), Tok(11, TCP)>>
    /\ compressed = <<RenderInterval(8, 9, TCP), Tok(11, TCP)>>

WellFormedGiven == SelectSeq(GivenTokens, LAMBDA t : ~IsMalformed(t))

\* C23: compress_ports returns for every token list, each malformed token
\* handed in stands in the result unchanged and as often as it was handed in,
\* and the rest of the result is what the well-formed tokens alone compress
\* to.
C23_MalformedPassThrough ==
    /\ p_stage # "compress_raised"
    /\ Compressed =>
           \A t \in Range(compressed) \cup Range(MalformedGiven) :
               Count(compressed, t) =
                   Count(MalformedGiven, t) + Count(compress_ports(WellFormedGiven), t)

\* The space-separated tokens of the raw port string.
RawTokens == SelectSeq(SplitOn(p_in.ports, " "), NonEmpty)

\* The text before the first "-" of a token, and the text after it.
RangeStart(t) == SplitOn(t, "-")[1]

RangeEnd(t) == SubSeq(t, Len(RangeStart(t)) + 2, Len(t))

\* A numeric start-end with start <= end.
IsNumericRange(t) ==
    /\ Contains(t, "-")
    /\ IsDigit(RangeStart(t))
    /\ IsDigit(RangeEnd(t))
    /\ ParseInt(RangeStart(t)) <= ParseInt(RangeEnd(t))

\* What one token of the raw string is to yield: every port from start to
\* end for a numeric range, the token itself in every other case.
Yield(t) ==
    IF IsNumericRange(t)
    THEN [k \in 1..(ParseInt(RangeEnd(t)) - ParseInt(RangeStart(t)) + 1) |->
             Tok(ParseInt(RangeStart(t)) + k - 1, p_in.proto_tag)]
    ELSE <<t \o <<"/">> \o p_in.proto_tag>>

\* C24: expand_port_tokens returns for every raw port string, and its result
\* is, token by token in input order, every port start/proto .. end/proto of
\* a numeric start-end with start <= end, and any other token verbatim with
\* /proto appended; no token is dropped.
C24_ExpandNeverDrops ==
    p_in.kind = "raw" =>
        /\ p_stage # "expand_raised"
        /\ p_stage # "args" =>
               port_tokens = Concat([i \in 1..Len(RawTokens) |-> Yield(RawTokens[i])])

RangeText(a, b) == IntToStr(a) \o <<"-">> \o IntToStr(b)

\* C7: the raw string start-end with start <= end expands to exactly the
\* tokens start/p ... end/p in ascending order, and compressing them gives the
\* one token start-end/p, or start/p when start = end.
C7_ExpandCompressRoundTrip ==
    \A a, b \in PortValues \cup {7000, 7002} :
        (p_in.kind = "raw" /\ a <= b /\ p_in.ports = RangeText(a, b)) =>
            /\ p_stage # "args" =>
                  /\ Len(port_tokens) = b - a + 1
                  /\ \A k \in 1..Len(port_tokens) :
                        port_tokens[k] = Tok(a + k - 1, p_in.proto_tag)
            /\ Compressed =>
                  compressed =
                      << IF a = b
                         THEN Tok(a, p_in.proto_tag)
                         ELSE RangeText(a, b) \o <<"/">> \o p_in.proto_tag >>

C7_Witness ==
    /\ p_stage = "compressed"
    /\ p_in.kind = "raw"
    /\ p_in.ports = RangeText(7000, 7002)
    /\ port_tokens = <<Tok(7000, TCP), Tok(7001, TCP), Tok(7002, TCP)>>
    /\ compressed = << <<"7", "0", "0", "0", "-", "7", "0", "0", "2", "/", "t", "c", "p">> >>

\* C8: compressing the result of compress_ports again returns it unchanged.
C8_CompressIdempotent == p_stage = "recompressed" => recompressed = compressed

\* The first result holds a range token, which the second call passes through.
C8_Witness ==
    /\ p_stage = "recompressed"
    /\ port_tokens = <<Tok(11, TCP), Tok(9, TCP), Tok(8, TCP)>>
    /\ compressed = << <<"8", "-", "9", "/", "t", "c", "p">>, Tok(11, TCP) >>
    /\ recompressed = compressed

\* Every token of every port column of the rows of group g, in row order.
GroupMemberTokens(rows, g) ==
    LET mine == SelectSeq(rows, LAMBDA r : GroupRowName(r) = g)
    IN  Concat([i \in 1..Len(mine) |->
                   Concat([c \in 1..Len(PortColumns) |->
                              SplitWhitespace(mine[i][PortColumns[c]])])])

\* C9: a group's port string is the compression of the union of the ports of
\* all its member rows, so adjacent or overlapping ports of different members
\* are merged and no port is listed twice.
C9_GroupIsCompressedUnion ==
    (p_stage = "groups" /\ grp_map.raised = NoRaise) =>
        \A g \in DOMAIN grp_map.map :
            grp_map.map[g]
                = Join(compress_ports(GroupMemberTokens(p_in.file.rows, g)), <<" ">>)


(***************************************************************************)
(* Properties of the ports resolve run (SpecServices).                     *)
(***************************************************************************)

ServiceCalled == svc_call.fn = "resolve_service_token"

\* C12: resolve_service_token looks the token up as it is (no case folding,
\* no trimming) in the service map first and in the group map only when the
\* service map has no such key: a name of both maps is rendered with the
\* service's ports, a token of neither map is returned unchanged.
C12_ServiceBeforeGroup ==
    ServiceCalled =>
        LET t == svc_call.token
            svc == svc_map.map
            grp == grp_map.map
        IN  /\ t \in DOMAIN svc =>
                 svc_call.ret = t \o <<"(">> \o svc[t] \o <<")">>
            /\ (t \notin DOMAIN svc /\ t \in DOMAIN grp) =>
                 svc_call.ret = t \o <<"(">> \o grp[t] \o <<")">>
            /\ (t \notin DOMAIN svc /\ t \notin DOMAIN grp) => svc_call.ret = t
            /\ (t \in {<<"g">>, <<" ", "G">>} /\ (<<"G">> \in DOMAIN svc \/ <<"G">> \in DOMAIN grp)) =>
                 svc_call.ret = t

\* A name of both maps, with different ports in each, rendered with the
\* service's ports.
C12_Witness ==
    /\ ServiceCalled
    /\ svc_call.token \in DOMAIN svc_map.map
    /\ svc_call.token \in DOMAIN grp_map.map
    /\ svc_map.map[svc_call.token] # grp_map.map[svc_call.token]
    /\ svc_call.ret = svc_call.token \o <<"(">> \o svc_map.map[svc_call.token] \o <<")">>

\* Names the loaded files know: a service row's trimmed name, a group row's
\* trimmed group name (of a configured groups file).
KnownServiceNames ==
    {Strip(svc_in.services.rows[i].name) : i \in 1..Len(svc_in.services.rows)} \ {<<>>}

KnownGroupNames ==
    IF svc_in.groups_set
    THEN {Strip(svc_in.groups.rows[i].group_name) : i \in 1..Len(svc_in.groups.rows)} \ {<<>>}
    ELSE {}

\* C13: a token known to the loaded tables (a service name of the services
\* file or a group name of the groups file) is never rendered bare: without
\* ports it is rendered 'token()'; this holds for a group all of whose rows
\* have empty port columns.
C13_KnownTokenNeverBare ==
    ServiceCalled =>
        LET t == svc_call.token
        IN  (t \in KnownServiceNames \cup KnownGroupNames) =>
                /\ svc_call.ret # t
                /\ Len(svc_call.ret) > Len(t)
                /\ SubSeq(svc_call.ret, 1, Len(t) + 1) = t \o <<"(">>

(***************************************************************************)
(* scripts/resolve_name.py and scripts/resolve_csv.py: main() from the     *)
(* start of the spinner to the writing of the output, and Spinner._run on  *)
(* its own thread.  One column is resolved; the steps of the two threads   *)
(* interleave.                                                             *)
(***************************************************************************)

\* resolve_name.py _to_ip_only: the text inside the first [...] of the
\* resolved token, or the original token when there is none, it is empty or ?.
to_ip_only(resolved_token, original_token) ==
    IF ~Contains(resolved_token, "[") THEN original_token
    ELSE LET rest == SubSeq(resolved_token, FirstIdx(resolved_token, "[") + 1,
                            Len(resolved_token))
         IN  IF ~Contains(rest, "]") THEN original_token
             ELSE LET inner == Strip(SubSeq(rest, 1, FirstIdx(rest, "]") - 1))
                  IN  IF Len(inner) = 0 \/ inner = <<"?">> THEN original_token ELSE inner

\* resolve_name.py _apply_display_mode
apply_display_mode(original_cell, resolved_cell, mode) ==
    IF mode # "ip" THEN resolved_cell
    ELSE LET orig_tokens == split_tokens(original_cell)
             res_tokens  == split_tokens(resolved_cell)
             out == [i \in 1..Len(res_tokens) |->
                        to_ip_only(res_tokens[i],
                                   IF i <= Len(orig_tokens) THEN orig_tokens[i]
                                   ELSE res_tokens[i])]
         IN  Join(out \o (IF Len(orig_tokens) > Len(res_tokens)
                          THEN SubSeq(orig_tokens, Len(res_tokens) + 1, Len(orig_tokens))
                          ELSE <<>>),
                  <<",", " ">>)

\* row[col] = ... of the cell loop: resolve_csv.py stores the resolved text,
\* resolve_name.py what _apply_display_mode makes of it.
CellResult(val, resolved) ==
    IF run_in.script = "resolve_name"
    THEN apply_display_mode(val, resolved, run_in.display_mode)
    ELSE resolved

\* set_current: "\r" and "\n" become blanks.
OneLine(text) ==
    [i \in 1..Len(text) |-> IF text[i] \in {"\r", "\n"} THEN " " ELSE text[i]]

\* The text handed to set_current: f"{col}={val}", in resolve_name.py with val
\* cut to 80 characters and an ellipsis.
SpinnerText(col, val) ==
    <<col, "=">> \o (IF run_in.script = "resolve_name" /\ Len(val) > 80
                     THEN SubSeq(val, 1, 80) \o <<"...">>
                     ELSE val)

Frames == <<"\\", "|", "/", "-">>

\* The line _run renders, its dash and the ellipsis above written in ASCII;
\* the lines of the model are shorter than the terminal, so _render does not
\* cut them.
RenderLine(i, cur) ==
    <<"Resolving", " [", Frames[(i % Len(Frames)) + 1], "]">>
        \o (IF Len(cur) > 0 THEN <<" - ">> \o cur ELSE <<>>)

\* A lock anybody can take at any time.
LockIgnored(lock) == TRUE

\* threading.Lock: acquire goes through only when nobody holds the lock.
LockAcquirable(lock) == lock = "free"

\* The try statement without its finally clause: an exception leaves main at
\* once.
ExitWithoutFinally(exc) == IF exc = NoRaise THEN "stop_set" ELSE "raised"

\* Where main goes when the try body ends, with or without an exception: the
\* finally clause.
OnTryExit(exc) == "stop_set"

\* csv.DictWriter.writerows with extrasaction="raise": the rows written before
\* the first row that holds a key outside fieldnames.
RECURSIVE WrittenRows(_, _)
WrittenRows(rows, fieldnames) ==
    IF Len(rows) = 0 \/ ~(DOMAIN Head(rows) \subseteq Range(fieldnames)) THEN <<>>
    ELSE <<Head(rows)>> \o WrittenRows(Tail(rows), fieldnames)

MaxInputRows == 1   \* most rows of the input file

ResolveColumn == "src"   \* columns_to_resolve holds this one column

\* An object name with a bracketed index in it.
NAME_INDEXED == <<"A", "[", "1", "]">>

\* Cells of the column: blank, a name, an address and a name, a name with an
\* empty label, a name with brackets in it.
RunCells == { <<" ">>, <<"A">>, IP_10_1_2_3 \o <<",", " ", "A">>, BAD_LABEL, NAME_INDEXED }

RunTokens == { <<"A">>, IP_10_1_2_3, BAD_LABEL, NAME_INDEXED }

\* A line with more cells than the header: csv.DictReader keeps the surplus
\* under its restkey, None, a key outside fieldnames.
LongRow == [src |-> <<" ">>, restkey |-> <<"x">>]

\* The input file: unreadable, without a header, without the column, or with
\* rows.
RunInputs ==
    [readable : {TRUE}, fieldnames : {<<ResolveColumn>>},
     rows : SeqsUpTo([src : RunCells] \cup {LongRow}, MaxInputRows)]
        \cup { [readable |-> FALSE, fieldnames |-> <<>>, rows |-> <<>>],
               [readable |-> TRUE, fieldnames |-> <<>>, rows |-> <<>>],
               [readable |-> TRUE, fieldnames |-> <<"dst">>, rows |-> <<>>] }

\* What the network answers during one run: an answer or a failure per token;
\* a name with a bracket in it is no host name, and its lookup fails.
RunOutcomes(token) ==
    {o \in TokenOutcomes(token) :
        /\ o.exc \in {NoRaise, "gaierror", "UnicodeError"}
        /\ Contains(token, "[") => o.exc = "gaierror"}

DnsWorlds ==
    {w \in [RunTokens -> UNION {RunOutcomes(t) : t \in RunTokens}] :
        \A t \in RunTokens : w[t] \in RunOutcomes(t)}

\* The outcomes of the socket calls the tokens of a cell lead to.
WorldOutcomes(val) ==
    [i \in 1..Len(split_tokens(val)) |-> run_in.dns[split_tokens(val)[i]]]

\* main() up to spinner = Spinner("Resolving"): the table loaded if its file
\* exists, the resolver built.
RunInit ==
    /\ ServicesIdle
    /\ PortsIdle
    /\ fw_objects \in {"None", "table"}
    /\ IF fw_objects = "None" THEN TableIdle
       ELSE /\ fw_file \in {f \in ResolverFiles : f.fieldnames = <<"name", "cidr">>}
            /\ \E r \in {LoadOutcome(fw_file)} :
                   /\ networks = r.networks
                   /\ name_to_ref = r.name_to_ref
                   /\ load_error = r.raised
            /\ load_state = "loaded"
            /\ find_call = [fn |-> "none"]
    /\ ip_to_name = <<>>
    /\ name_to_ip = <<>>
    /\ dns_log = <<>>
    /\ history = <<>>
    /\ run_in \in [script : {"resolve_csv"}, display_mode : {"full"},
                   input : RunInputs, dns : DnsWorlds]
                  \cup [script : {"resolve_name"}, display_mode : {"full", "ip"},
                        input : RunInputs, dns : DnsWorlds]
    /\ main = [pc |-> "start", i |-> 0, exc |-> NoRaise, rows |-> <<>>,
               out |-> [opened |-> FALSE], stops |-> 0]
    /\ spinner = [stop |-> FALSE, lock |-> "free", current |-> <<>>]
    /\ thread = [pc |-> "none", i |-> 0, cur |-> <<>>]
    /\ screen = <<>>

\* The cell main is at.
CurrentVal == Strip(RowGet(run_in.input.rows[main.i], ResolveColumn))

\* spinner.start(): the event cleared, the thread started.
SpinnerStart ==
    /\ main.pc = "start"
    /\ spinner' = [spinner EXCEPT !.stop = FALSE]
    /\ thread' = [pc |-> "test", i |-> 0, cur |-> <<>>]
    /\ main' = [main EXCEPT !.pc = "open"]
    /\ UNCHANGED <<run_in, screen, table_vars, ports_vars, resolver_vars, service_vars>>

\* try: open the input, read the header, check the columns.
OpenInput ==
    /\ main.pc = "open"
    /\ \E e \in {IF ~run_in.input.readable THEN "OSError"
                 ELSE IF Len(run_in.input.fieldnames) = 0 THEN "ValueError"
                 ELSE IF ResolveColumn \notin Range(run_in.input.fieldnames) THEN "ValueError"
                 ELSE NoRaise} :
           main' = IF e = NoRaise THEN [main EXCEPT !.pc = "row", !.i = 1]
                   ELSE [main EXCEPT !.pc = OnTryExit(e), !.exc = e]
    /\ UNCHANGED <<run_in, spinner, thread, screen, table_vars, ports_vars, resolver_vars,
                   service_vars>>

\* for row in reader: the end of the rows, a row with an empty cell, or a row
\* whose cell is to be resolved.
NextRow ==
    /\ main.pc = "row"
    /\ main' = IF main.i > Len(run_in.input.rows)
               THEN [main EXCEPT !.pc = OnTryExit(NoRaise)]
               ELSE IF Len(CurrentVal) = 0
               THEN [main EXCEPT !.rows = Append(@, run_in.input.rows[main.i]), !.i = @ + 1]
               ELSE [main EXCEPT !.pc = "set_acquire"]
    /\ UNCHANGED <<run_in, spinner, thread, screen, table_vars, ports_vars, resolver_vars,
                   service_vars>>

\* set_current: with self._lock
SetCurrentAcquire ==
    /\ main.pc = "set_acquire"
    /\ LockAcquirable(spinner.lock)
    /\ spinner' = [spinner EXCEPT !.lock = "main"]
    /\ main' = [main EXCEPT !.pc = "set_write"]
    /\ UNCHANGED <<run_in, thread, screen, table_vars, ports_vars, resolver_vars, service_vars>>

\* set_current: self._current = text, and the lock released.
SetCurrentWrite ==
    /\ main.pc = "set_write"
    /\ spinner' = [spinner EXCEPT !.current = OneLine(SpinnerText(ResolveColumn, CurrentVal)),
                                  !.lock = "free"]
    /\ main' = [main EXCEPT !.pc = "resolve"]
    /\ UNCHANGED <<run_in, thread, screen, table_vars, ports_vars, resolver_vars, service_vars>>

\* row[col] = resolve_cell(val, resolver) and rows.append(row), or the
\* exception resolve_cell lets through.
MainResolveCell ==
    /\ main.pc = "resolve"
    /\ \E r \in {resolve_cell(Self, FwObjects, CurrentVal, WorldOutcomes(CurrentVal))} :
           /\ ip_to_name' = r.st.ip_to_name
           /\ name_to_ip' = r.st.name_to_ip
           /\ dns_log' = r.st.dns_log
           /\ main' = IF r.raised # NoRaise
                      THEN [main EXCEPT !.pc = OnTryExit(r.raised), !.exc = r.raised]
                      ELSE [main EXCEPT !.pc = "row", !.i = @ + 1,
                                        !.rows = Append(@, [run_in.input.rows[main.i] EXCEPT
                                                                !.src = CellResult(CurrentVal, r.display)])]
    /\ UNCHANGED <<run_in, spinner, thread, screen, fw_objects, history, table_vars,
                   ports_vars, service_vars>>

\* finally: spinner.stop(): self._stop.set()
StopSet ==
    /\ main.pc = "stop_set"
    /\ spinner' = [spinner EXCEPT !.stop = TRUE]
    /\ main' = [main EXCEPT !.pc = "join"]
    /\ UNCHANGED <<run_in, thread, screen, table_vars, ports_vars, resolver_vars, service_vars>>

\* stop(): self._thread.join(timeout=1.0) returns when the thread has ended
\* or when the second is over, whichever comes first.
ThreadJoin ==
    /\ main.pc = "join"
    /\ main' = [main EXCEPT !.pc = "clear"]
    /\ UNCHANGED <<run_in, spinner, thread, screen, table_vars, ports_vars, resolver_vars,
                   service_vars>>

\* stop(): self._clear_line(); stop() returns, and the exception of the try
\* body, if any, leaves main.
ClearLine ==
    /\ main.pc = "clear"
    /\ screen' = <<>>
    /\ main' = [main EXCEPT !.stops = @ + 1,
                            !.pc = IF main.exc = NoRaise THEN "output" ELSE "raised"]
    /\ UNCHANGED <<run_in, spinner, thread, table_vars, ports_vars, resolver_vars, service_vars>>

\* with out_path.open("w"): the file is created or truncated, the header
\* written, and writerows writes the rows one by one; at a row with a key
\* outside fieldnames it raises ValueError and the file keeps what was written.
OpenOutput ==
    /\ main.pc = "output"
    /\ \E w \in {WrittenRows(main.rows, run_in.input.fieldnames)} :
           main' = IF Len(w) = Len(main.rows)
                   THEN [main EXCEPT !.out = [opened |-> TRUE, rows |-> w], !.pc = "done"]
                   ELSE [main EXCEPT !.out = [opened |-> TRUE, rows |-> w],
                                     !.pc = "write_raised", !.exc = "ValueError"]
    /\ UNCHANGED <<run_in, spinner, thread, screen, table_vars, ports_vars, resolver_vars,
                   service_vars>>

\* _run: while not self._stop.is_set()
ThreadTest ==
    /\ thread.pc = "test"
    /\ thread' = [thread EXCEPT !.pc = IF spinner.stop THEN "exited" ELSE "acquire"]
    /\ UNCHANGED <<run_in, main, spinner, screen, table_vars, ports_vars, resolver_vars,
                   service_vars>>

\* _run: with self._lock
ThreadAcquire ==
    /\ thread.pc = "acquire"
    /\ LockAcquirable(spinner.lock)
    /\ spinner' = [spinner EXCEPT !.lock = "thread"]
    /\ thread' = [thread EXCEPT !.pc = "read"]
    /\ UNCHANGED <<run_in, main, screen, table_vars, ports_vars, resolver_vars, service_vars>>

\* _run: cur = self._current, and the lock released.
ThreadRead ==
    /\ thread.pc = "read"
    /\ thread' = [thread EXCEPT !.cur = spinner.current, !.pc = "render"]
    /\ spinner' = [spinner EXCEPT !.lock = "free"]
    /\ UNCHANGED <<run_in, main, screen, table_vars, ports_vars, resolver_vars, service_vars>>

\* _run: self._render(...), i += 1, time.sleep(0.12).  Only i % len(frames)
\* is ever read, so i is kept modulo the number of frames.
ThreadRender ==
    /\ thread.pc = "render"
    /\ screen' = RenderLine(thread.i, thread.cur)
    /\ thread' = [thread EXCEPT !.i = (@ + 1) % Len(Frames), !.pc = "test"]
    /\ UNCHANGED <<run_in, main, spinner, table_vars, ports_vars, resolver_vars, service_vars>>

MainNext ==
    \/ SpinnerStart
    \/ OpenInput
    \/ NextRow
    \/ SetCurrentAcquire
    \/ SetCurrentWrite
    \/ MainResolveCell
    \/ StopSet
    \/ ThreadJoin
    \/ ClearLine
    \/ OpenOutput

ThreadNext ==
    \/ ThreadTest
    \/ ThreadAcquire
    \/ ThreadRead
    \/ ThreadRender

RunNext == MainNext \/ ThreadNext

SpecRun == RunInit /\ [][RunNext]_vars


(***************************************************************************)
(* Properties of the resolve run (SpecRun).                                *)
(***************************************************************************)

\* The positions of main inside the try body.
TryBody == {"open", "row", "set_acquire", "set_write", "resolve"}

\* C19: Spinner.stop() is executed on every exit of the read-and-resolve
\* loop, the normal end and every exception raised while the input is read or
\* a cell is resolved, and before the output file is opened: main leaves the
\* try body only into stop(), it reaches the output or raises to its caller
\* only after stop() has returned, and after an exception no output is opened.
C19_StopOnEveryExit ==
    /\ [](main.pc \in {"output", "done", "raised"} => main.stops = 1)
    /\ [](main.pc = "raised" => (main.exc # NoRaise /\ ~main.out.opened))
    /\ [](main.pc \in TryBody \cup {"start"} => (main.stops = 0 /\ ~main.out.opened))
    /\ [][(main.pc \in TryBody /\ main'.pc \notin TryBody) => main'.pc = "stop_set"]_vars
    /\ [][(~main.out.opened /\ main'.out.opened) => main.stops = 1]_vars

\* resolve_cell let an exception through; stop() ran before it left main, and
\* no output was opened.
C19_Witness ==
    /\ main.pc = "raised"
    /\ main.exc = "UnicodeError"
    /\ main.stops = 1
    /\ ~main.out.opened

\* The rows resolved one after another with nothing else running: the
\* resolver state, the exception that ended the loop, the rows so far.
RECURSIVE RowsAlone(_, _)
RowsAlone(rows, k) ==
    IF k = 0
    THEN [st |-> [ip_to_name |-> <<>>, name_to_ip |-> <<>>, dns_log |-> <<>>],
          raised |-> NoRaise, rows |-> <<>>]
    ELSE Bind(RowsAlone(rows, k - 1), LAMBDA b :
         LET val == Strip(RowGet(rows[k], ResolveColumn))
         IN  IF b.raised # NoRaise THEN b
             ELSE IF Len(val) = 0 THEN [b EXCEPT !.rows = Append(@, rows[k])]
             ELSE Bind(resolve_cell(b.st, FwObjects, val, WorldOutcomes(val)), LAMBDA r :
                  IF r.raised # NoRaise
                  THEN [st |-> r.st, raised |-> r.raised, rows |-> b.rows]
                  ELSE [st |-> r.st, raised |-> NoRaise,
                        rows |-> Append(b.rows, [rows[k] EXCEPT !.src = CellResult(val, r.display)])]))

RunAlone == RowsAlone(run_in.input.rows, Len(run_in.input.rows))

C21_NoOutputAfterStop ==
    main.stops >= 1 =>
        /\ thread.pc = "exited"
        /\ screen = <<>>

(***************************************************************************)
(* Properties of the legacy row loop and of the failed load                *)
(***************************************************************************)

\* The prefix a legacy row is to get from its mask cell: the host prefix for
\* an empty cell, the number for a prefix length valid for the address's
\* version, the prefix of a dotted-decimal mask; NoPrefix for any other cell.
ExpectedPrefix(ip_obj, mask_str) ==
    IF Len(mask_str) = 0 THEN (IF ip_obj.version = 4 THEN 32 ELSE 128)
    ELSE IF IsDigit(mask_str) /\ Len(mask_str) <= 3
         THEN (IF ParseInt(mask_str) <= (IF ip_obj.version = 4 THEN 32 ELSE 128)
               THEN ParseInt(mask_str) ELSE NoPrefix)
    ELSE IF Contains(mask_str, ".") THEN mask_to_prefix(mask_str)
    ELSE NoPrefix

\* A legacy row that is not bad: name and ip not empty, ip an address, the
\* mask cell one that gives a prefix.
LegacyRowGood(row) ==
    /\ Len(Strip(RowGet(row, RuName))) > 0
    /\ Len(Strip(RowGet(row, "ip"))) > 0
    /\ ip_address(Strip(RowGet(row, "ip"))) # Invalid
    /\ ExpectedPrefix(ip_address(Strip(RowGet(row, "ip"))), Strip(RowGet(row, "mask"))) # NoPrefix

GoodRows == {i \in 1..Len(fw_file.rows) : LegacyRowGood(fw_file.rows[i])}

\* C25: load() of a file in the legacy columns never raises on a row and
\* skips exactly the bad rows (name or ip empty, ip invalid, mask not
\* parseable): every other row, one with an empty mask, a dotted-decimal mask
\* or a prefix length valid for its address's version included, gives exactly
\* one network entry with its name and prefix, also after a skipped row.
C25_LegacySkipsExactlyBadRows ==
    (FileIsRu /\ load_state # "fresh") =>
        /\ Loaded
        /\ Len(networks) = Cardinality(GoodRows)
        /\ \A i \in GoodRows :
               \E k \in 1..Len(networks) :
                   /\ networks[k].name = Strip(RowGet(fw_file.rows[i], RuName))
                   /\ networks[k].network.version =
                          ip_address(Strip(RowGet(fw_file.rows[i], "ip"))).version
                   /\ networks[k].network.prefixlen =
                          ExpectedPrefix(ip_address(Strip(RowGet(fw_file.rows[i], "ip"))),
                                         Strip(RowGet(fw_file.rows[i], "mask")))

\* C26: find_ref_for_name is a case-insensitive exact lookup: it returns the
\* reference stored under the trimmed, lower-cased name, the same for every
\* case variant of the name, and None when no loaded row has that name; an
\* address held by a loaded network is not matched against the networks.
C26_FindRefExactLookup ==
    find_call.fn = "find_ref_for_name" =>
        /\ find_call.ret = IF TrimLower(find_call.arg) \in DOMAIN name_to_ref
                           THEN name_to_ref[TrimLower(find_call.arg)]
                           ELSE NoneVal
        /\ \A v \in NameQueries :
               TrimLower(v) = TrimLower(find_call.arg) =>
                   find_ref_for_name(name_to_ref, v) = find_call.ret
        /\ (load_state = "raised" \/ (Loaded /\ TrimLower(find_call.arg) \notin FileKeys))
               => find_call.ret = NoneVal

\* The name is the text of an address inside a loaded network: not found.
C26_Witness ==
    /\ Loaded
    /\ find_call.fn = "find_ref_for_name"
    /\ find_call.arg = IP_10_1_2_3
    /\ find_name_for_ip(networks, IP_10_1_2_3) = <<"A">>
    /\ DOMAIN name_to_ref = {<<"a">>}
    /\ find_call.ret = NoneVal

\* C28: load() on a path that does not exist raises FileNotFoundError; and
\* whenever load() fails (missing file, missing header, rejected schema) the
\* network list and the name-to-reference map are what they were before the
\* call, empty for a fresh table, so that lookups answer as before.
C28_FailedLoadKeepsTable ==
    /\ []((load_state \in {"raised", "reload_raised"} /\ ~fw_file.exists)
            => load_error.exc = "FileNotFoundError")
    /\ [](load_state \in {"raised", "reload_raised"} => load_error.exc # NoRaise)
    /\ [](load_state = "raised" =>
            /\ networks = <<>>
            /\ name_to_ref = <<>>
            /\ find_call.fn # "none" => find_call.ret = NoneVal)
    /\ [][(load_state' \in {"raised", "reload_raised"} /\ load_state' # load_state) =>
              (networks' = networks /\ name_to_ref' = name_to_ref)]_vars

\* The file was removed after the table was loaded; the second load raised,
\* and the lookup still finds the reference loaded before.
C28_Witness ==
    /\ load_state = "reload_raised"
    /\ ~fw_file.exists
    /\ load_error.exc = "FileNotFoundError"
    /\ Len(networks) > 0
    /\ find_call.fn = "find_ref_for_name"
    /\ find_call.ret # NoneVal

(***************************************************************************)
(* Properties of the resolver's caches                                     *)
(***************************************************************************)

\* The tokens of the call a step has just added to the history.
CallTokens(h) == h[Len(h)].tokens

\* C30: resolution only adds cache entries: a key present in the cache of
\* addresses or in the cache of names keeps its value through every later
\* call; a call whose tokens are all addresses leaves the cache of names
\* unchanged, one whose tokens are all names leaves the cache of addresses
\* unchanged; an empty or blank token changes no cache and makes no DNS
\* call; no call changes the network table.
C30_CachesOnlyGrow ==
    [][ /\ \A k \in DOMAIN ip_to_name :
              k \in DOMAIN ip_to_name' /\ ip_to_name'[k] = ip_to_name[k]
        /\ \A k \in DOMAIN name_to_ip :
              k \in DOMAIN name_to_ip' /\ name_to_ip'[k] = name_to_ip[k]
        /\ Len(history') > Len(history) =>
              /\ (\A i \in 1..Len(CallTokens(history')) : is_ip(CallTokens(history')[i]))
                    => name_to_ip' = name_to_ip
              /\ (\A i \in 1..Len(CallTokens(history')) : ~is_ip(CallTokens(history')[i]))
                    => ip_to_name' = ip_to_name
              /\ Len(Strip(history'[Len(history')].arg)) = 0 =>
                    /\ ip_to_name' = ip_to_name
                    /\ name_to_ip' = name_to_ip
                    /\ dns_log' = dns_log
        /\ UNCHANGED <<fw_objects, fw_file, networks, name_to_ref>>
      ]_vars

\* The same address resolved twice: one DNS call, the entry of the first call
\* still in the cache of addresses, the cache of names untouched.
C30_Witness ==
    /\ Len(history) = 2
    /\ history[1].arg = IP_10_1_2_3
    /\ history[2].arg = IP_10_1_2_3
    /\ Len(dns_log) = 1
    /\ IP_10_1_2_3 \in DOMAIN ip_to_name
    /\ name_to_ip = <<>>

(***************************************************************************)
(* Properties of the output file                                           *)
(***************************************************************************)

\* C27: the output file is opened only after every input row has been read
\* and resolved; the rows written are as many as the input rows and in their
\* order; a run that raised has created or changed no output file.
C27_OutputAfterAllRows ==
    /\ [](main.out.opened =>
            /\ main.i > Len(run_in.input.rows)
            /\ Len(main.out.rows) = Len(run_in.input.rows)
            /\ main.out.rows = RunAlone.rows)
    /\ [](main.exc # NoRaise => ~main.out.opened)
    /\ [][(~main.out.opened /\ main'.out.opened) =>
              (main.pc = "output" /\ Len(main.rows) = Len(run_in.input.rows))]_vars

(***************************************************************************)
(* Properties of the display mode                                          *)
(***************************************************************************)

\* The text inside the trailing [...] of a resolved token's display.
TrailingInner(display) ==
    Strip(SubSeq(display, LastIdx(display, "[") + 1, Len(display) - 1))

\* What display mode ip is to write for one token: the address or reference
\* of the trailing brackets, or the original token when that is ? or empty.
IpOnly(entry) ==
    IF TrailingInner(entry.display) = <<"?">> \/ Len(TrailingInner(entry.display)) = 0
    THEN entry.token
    ELSE TrailingInner(entry.display)

\* The tokens of row k as resolve_token resolved them, one entry per token.
RowResolved(k) ==
    resolve_cell(RowsAlone(run_in.input.rows, k - 1).st, FwObjects,
                 Strip(RowGet(run_in.input.rows[k], ResolveColumn)),
                 WorldOutcomes(Strip(RowGet(run_in.input.rows[k], ResolveColumn)))).resolved

\* C29: in display mode ip a resolved cell holds exactly one token per
\* original token, in order: the address or reference resolution put in the
\* trailing brackets of the token's display, or the original token when that
\* is ? or empty; ? is never written.  This holds for every display the
\* resolver produces, those of names that hold [ or ] included.
C29_IpModeOneTokenPerToken ==
    (run_in.script = "resolve_name" /\ run_in.display_mode = "ip") =>
        \A k \in 1..Len(main.rows) :
            Len(Strip(RowGet(run_in.input.rows[k], ResolveColumn))) > 0 =>
                /\ main.rows[k].src =
                       Join([i \in 1..Len(RowResolved(k)) |-> IpOnly(RowResolved(k)[i])],
                            <<",", " ">>)
                /\ \A i \in 1..Len(split_tokens(main.rows[k].src)) :
                       split_tokens(main.rows[k].src)[i] # <<"?">>

====
